---- MODULE Spec2Model ----
(***************************************************************************)
(* Emendo: a desktop video trimmer / cropper that exports through ffmpeg.  *)
(*                                                                         *)
(* The module models four parts of the program as state machines:         *)
(*   - CropOverlay (src/emendo.py): the interactive crop rectangle,        *)
(*   - the metadata probe of EmendoApp._open_file and its callbacks,       *)
(*   - the export form validation of EmendoApp.on_export / _do_export,     *)
(*   - the export worker of EmendoApp._start_ffmpeg_thread.                *)
(*                                                                         *)
(* Numbers.  Python floats are modelled by exact fixed-point integers:     *)
(*   crop fractions are numerators over CropDen (0.05 = 5/100),            *)
(*   media times are milliseconds, the monotonic clock counts 1/60 s,      *)
(*   the wall clock counts 1/10 s.  Widget and video sizes are chosen so   *)
(*   that the displayed rectangle has whole-pixel coordinates.             *)
(***************************************************************************)
EXTENDS Integers, Sequences, FiniteSets, TLC

\* ---------------------------------------------------------------- constants
\* src/constants.py, as fixed-point values
CropDen == 100                    \* denominator of the crop fractions
CROP_MIN_SIZE == 5                \* 0.05
CROP_DEFAULT_X == 10              \* 0.1
CROP_DEFAULT_Y == 10              \* 0.1
CROP_DEFAULT_W == 80              \* 0.8
CROP_DEFAULT_H == 80              \* 0.8
CROP_REDRAW_THROTTLE == 1         \* 1/60 s, in clock ticks of 1/60 s
RECT_CACHE_DURATION == 6          \* 0.1 s,  in clock ticks of 1/60 s
HandleThreshold == 12             \* the hit-test tolerance in pixels

\* Python's None for the integer-valued fields and for the handle
NoSize == 0 - 1
NoHandle == "none"
NoRect == << >>

\* ---------------------------------------------------------------- bounds
MaxClock == 14                    \* the monotonic clock stops here
ClockSteps == { 7 }               \* a pause longer than both throttles

\* the inputs of the crop overlay
WidgetSizes == { <<0, 0>>, <<100, 0>>, <<100, 100>> }
GestureWidgetSizes == { <<100, 100>>, <<200, 100>> }
VideoSizes == { <<200, 100>> }
PointerPositions ==
    { <<15, 15>>, <<85, 15>>, <<15, 85>>, <<85, 85>>,
      <<10, 50>>, <<90, 50>>, <<50, 30>>, <<50, 90>>, <<50, 50>> }
DragDeltas == { <<0 - 200, 0 - 200>>, <<200, 200>>, <<40, 0 - 40>>, <<0, 0>> }
OverlayPointers == { <<5, 5>>, <<85, 85>>, <<50, 50>>, <<90, 50>> }
OverlayDeltas == { <<0 - 200, 0 - 200>>, <<200, 200>> }

\* files and probe results of the metadata probe
MaxRequests == 3                  \* requests issued in one run
Paths == { "a.mp4", "b.mp4" }
ProbeOutcomes ==
    { [ kind |-> "loaded", duration |-> 10000, width |-> 200, height |-> 100,
        fps |-> 30000 ],
      [ kind |-> "loaded", duration |-> 0 - 2, width |-> 0 - 1, height |-> 0 - 1,
        fps |-> 60000 ],
      [ kind |-> "error", title |-> "ffprobe error" ] }

\* the export jobs
MaxLines == 2                     \* lines of output read in one job
WallStart == 100                  \* the clock at the start of a job
WallSteps == { 2, 3 }             \* at the edge of the progress throttle, and past it
ExitCodes == { 0, 1 }
ExportTrims == { << 5000, 15000 >>, << 0, 10000 >> }

\* the answers of check_encoder_available: True, False, or it raised
ProbeResults == { "True", "False", "None" }

\* how the run of 'ffmpeg -hide_banner -encoders' ends: exit code 0 with or
\* without the encoder in the listing, an error exit with no listing,
\* subprocess.TimeoutExpired, or FileNotFoundError
ProbeRuns == { "listed", "not_listed", "error_exit", "timeout", "not_found" }
MaxChecks == 1                    \* check threads running at a time

\* the video sizes get_crop_params is asked for
ParamVideoSizes == { <<1920, 1080>>, <<853, 480>>, <<20, 20>>, <<1, 1>> }

VARIABLES
    \* CropOverlay
    crop_enabled, crop_x, crop_y, crop_w, crop_h,
    overlay_video_width, overlay_video_height,
    dragging, drag_start_x, drag_start_y, drag_start_crop,
    cached_rect, last_rect_calc, last_crop_draw, is_visible,
    widget_w, widget_h,
    gesture_active,               \* GTK: between drag-begin and drag-end
    now,                          \* time.monotonic()
    draw_pending,                 \* GTK: queue_draw was called, no frame since
    painted_crop                  \* the rectangle of the last frame, or NoRect

cropVars == << crop_enabled, crop_x, crop_y, crop_w, crop_h,
               overlay_video_width, overlay_video_height,
               dragging, drag_start_x, drag_start_y, drag_start_crop,
               cached_rect, last_rect_calc, last_crop_draw, is_visible,
               widget_w, widget_h, gesture_active, now,
               draw_pending, painted_crop >>

\* ---------------------------------------------------------------- helpers
Max(a, b) == IF a >= b THEN a ELSE b
Min(a, b) == IF a <= b THEN a ELSE b
Abs(a) == IF a >= 0 THEN a ELSE 0 - a

\* Python truthiness of an int-or-None size: None and 0 are false
Truthy(v) == v # NoSize /\ v # 0

\* ================================================================
\*                           CropOverlay
\* ================================================================

\* CropOverlay.__init__, on a widget of size ws showing a video of size vs
CropFields(ws, vs, visible) ==
    /\ crop_enabled = FALSE
    /\ crop_x = CROP_DEFAULT_X
    /\ crop_y = CROP_DEFAULT_Y
    /\ crop_w = CROP_DEFAULT_W
    /\ crop_h = CROP_DEFAULT_H
    /\ overlay_video_width = vs[1]
    /\ overlay_video_height = vs[2]
    /\ dragging = NoHandle
    /\ drag_start_x = 0
    /\ drag_start_y = 0
    /\ drag_start_crop = NoRect
    /\ cached_rect = NoRect
    /\ last_rect_calc = 0
    /\ last_crop_draw = 0
    /\ is_visible = visible
    /\ widget_w = ws[1]
    /\ widget_h = ws[2]
    /\ gesture_active = FALSE
    /\ now = 0
    /\ draw_pending = FALSE
    /\ painted_crop = NoRect

\* the overlay right after construction: not mapped, not allocated, no video
CropInit == CropFields(<<0, 0>>, <<NoSize, NoSize>>, FALSE)

\* a mapping that degenerates to the zero rectangle for an unknown video size
DisplayedRectZeroIfUnknown(ww, wh, vw, vh) ==
    IF ww <= 0 \/ wh <= 0 \/ ~Truthy(vw) \/ ~Truthy(vh) THEN <<0, 0, 0, 0>>
    ELSE LET byWidth == ww * vh <= wh * vw
             disp_w == IF byWidth THEN ww ELSE (vw * wh) \div vh
             disp_h == IF byWidth THEN (vh * ww) \div vw ELSE wh
         IN  << (ww - disp_w) \div 2, (wh - disp_h) \div 2, disp_w, disp_h >>

\* CropOverlay._displayed_video_rect: <<offset_x, offset_y, disp_w, disp_h>>
\* scale = min(ww / vw, wh / vh) is ww / vw exactly when ww * vh <= wh * vw
_displayed_video_rect(ww, wh, vw, vh) ==
    IF ww <= 0 \/ wh <= 0 THEN <<0, 0, 0, 0>>
    ELSE IF ~Truthy(vw) \/ ~Truthy(vh) THEN <<0, 0, ww, wh>>
    ELSE LET byWidth == ww * vh <= wh * vw
             disp_w == IF byWidth THEN ww ELSE (vw * wh) \div vh
             disp_h == IF byWidth THEN (vh * ww) \div vw ELSE wh
         IN  << (ww - disp_w) \div 2, (wh - disp_h) \div 2, disp_w, disp_h >>

\* a hit test that tries the edges before the corners
GetHandleEdgesFirst(mx, my, r, cx, cy, cw, ch) ==
    LET x == CropDen * r[1] + cx * r[3]
        y == CropDen * r[2] + cy * r[4]
        w == cw * r[3]
        h == ch * r[4]
        px == CropDen * mx
        py == CropDen * my
        threshold == CropDen * HandleThreshold
    IN  IF Abs(px - x) < threshold /\ y < py /\ py < y + h THEN "left"
        ELSE IF Abs(px - (x + w)) < threshold /\ y < py /\ py < y + h THEN "right"
        ELSE IF Abs(py - y) < threshold /\ x < px /\ px < x + w THEN "top"
        ELSE IF Abs(py - (y + h)) < threshold /\ x < px /\ px < x + w THEN "bottom"
        ELSE IF Abs(px - x) < threshold /\ Abs(py - y) < threshold THEN "tl"
        ELSE IF Abs(px - (x + w)) < threshold /\ Abs(py - y) < threshold THEN "tr"
        ELSE IF Abs(px - x) < threshold /\ Abs(py - (y + h)) < threshold THEN "bl"
        ELSE IF Abs(px - (x + w)) < threshold /\ Abs(py - (y + h)) < threshold THEN "br"
        ELSE IF x < px /\ px < x + w /\ y < py /\ py < y + h THEN "move"
        ELSE NoHandle

\* CropOverlay._get_handle_at, on a displayed rectangle r and a crop
\* rectangle <<cx, cy, cw, ch>>; all comparisons are scaled by CropDen
_get_handle_at(mx, my, r, cx, cy, cw, ch) ==
    LET x == CropDen * r[1] + cx * r[3]
        y == CropDen * r[2] + cy * r[4]
        w == cw * r[3]
        h == ch * r[4]
        px == CropDen * mx
        py == CropDen * my
        threshold == CropDen * HandleThreshold
    IN  IF Abs(px - x) < threshold /\ Abs(py - y) < threshold THEN "tl"
        ELSE IF Abs(px - (x + w)) < threshold /\ Abs(py - y) < threshold THEN "tr"
        ELSE IF Abs(px - x) < threshold /\ Abs(py - (y + h)) < threshold THEN "bl"
        ELSE IF Abs(px - (x + w)) < threshold /\ Abs(py - (y + h)) < threshold THEN "br"
        ELSE IF Abs(px - x) < threshold /\ y < py /\ py < y + h THEN "left"
        ELSE IF Abs(px - (x + w)) < threshold /\ y < py /\ py < y + h THEN "right"
        ELSE IF Abs(py - y) < threshold /\ x < px /\ px < x + w THEN "top"
        ELSE IF Abs(py - (y + h)) < threshold /\ x < px /\ px < x + w THEN "bottom"
        ELSE IF x < px /\ px < x + w /\ y < py /\ py < y + h THEN "move"
        ELSE NoHandle

\* a move that gives up width and height at the far borders
MoveRuleResizing(c, o, rdx, rdy) ==
    LET x == Max(0, Min(CropDen - CROP_MIN_SIZE, o[1] + rdx))
        y == Max(0, Min(CropDen - CROP_MIN_SIZE, o[2] + rdy))
    IN  << x, y, Min(c[3], CropDen - x), Min(c[4], CropDen - y) >>
\* lines 711-713: the 'move' handle shifts the origin and keeps the size
MoveRule(c, o, rdx, rdy) ==
    << Max(0, Min(CropDen - c[3], o[1] + rdx)),
       Max(0, Min(CropDen - c[4], o[2] + rdy)), c[3], c[4] >>

\* a size that stays as it was while the near edge moves
FarEdgeSizeKept(orig_pos, orig_size, new_pos) == orig_size
\* lines 717-718, 723, 727, 735 and 741: the size that goes with the new
\* position of the near edge
FarEdgeSize(orig_pos, orig_size, new_pos) == orig_size - (new_pos - orig_pos)

\* a drag rule whose moving left / top edge is not stopped at the minimum size
DragRuleNoMinStop(handle, c, o, rdx, rdy) ==
    LET min_size == CROP_MIN_SIZE
        new_x == Max(0, o[1] + rdx)
        new_y == Max(0, o[2] + rdy)
        grow_w == Max(min_size, Min(CropDen - o[1], o[3] + rdx))
        grow_h == Max(min_size, Min(CropDen - o[2], o[4] + rdy))
    IN  CASE handle = "move" ->
               << Max(0, Min(CropDen - c[3], o[1] + rdx)),
                  Max(0, Min(CropDen - c[4], o[2] + rdy)), c[3], c[4] >>
          [] handle = "tl" ->
               << new_x, new_y, o[3] - (new_x - o[1]), o[4] - (new_y - o[2]) >>
          [] handle = "tr" ->
               << c[1], new_y, grow_w, o[4] - (new_y - o[2]) >>
          [] handle = "bl" ->
               << new_x, c[2], o[3] - (new_x - o[1]), grow_h >>
          [] handle = "br" -> << c[1], c[2], grow_w, grow_h >>
          [] handle = "left" -> << new_x, c[2], o[3] - (new_x - o[1]), c[4] >>
          [] handle = "right" -> << c[1], c[2], grow_w, c[4] >>
          [] handle = "top" -> << c[1], new_y, c[3], o[4] - (new_y - o[2]) >>
          [] handle = "bottom" -> << c[1], c[2], c[3], grow_h >>
          [] OTHER -> c

\* the handle-specific update of on_drag_update (lines 711-745):
\* <<x, y, w, h>> from the current rectangle c, the drag-start rectangle o
\* and the relative delta
DragRule(handle, c, o, rdx, rdy) ==
    LET min_size == CROP_MIN_SIZE
        new_x == Max(0, Min(o[1] + o[3] - min_size, o[1] + rdx))
        new_y == Max(0, Min(o[2] + o[4] - min_size, o[2] + rdy))
        grow_w == Max(min_size, Min(CropDen - o[1], o[3] + rdx))
        grow_h == Max(min_size, Min(CropDen - o[2], o[4] + rdy))
    IN  CASE handle = "move" -> MoveRule(c, o, rdx, rdy)
          [] handle = "tl" ->
               << new_x, new_y, FarEdgeSize(o[1], o[3], new_x),
                  FarEdgeSize(o[2], o[4], new_y) >>
          [] handle = "tr" ->
               << c[1], new_y, grow_w, FarEdgeSize(o[2], o[4], new_y) >>
          [] handle = "bl" ->
               << new_x, c[2], FarEdgeSize(o[1], o[3], new_x), grow_h >>
          [] handle = "br" -> << c[1], c[2], grow_w, grow_h >>
          [] handle = "left" -> << new_x, c[2], FarEdgeSize(o[1], o[3], new_x), c[4] >>
          [] handle = "right" -> << c[1], c[2], grow_w, c[4] >>
          [] handle = "top" -> << c[1], new_y, c[3], FarEdgeSize(o[2], o[4], new_y) >>
          [] handle = "bottom" -> << c[1], c[2], c[3], grow_h >>
          [] OTHER -> c

\* the final clamp pass of on_drag_update (lines 746-749)
FinalClamp(c) ==
    LET x == Max(0, Min(CropDen - c[3], c[1]))
        y == Max(0, Min(CropDen - c[4], c[2]))
        w == Max(CROP_MIN_SIZE, Min(CropDen - x, c[3]))
        h == Max(CROP_MIN_SIZE, Min(CropDen - y, c[4]))
    IN  << x, y, w, h >>

\* a throttle that lets a redraw through at exactly 1/60 s
ThrottledDrawAtEdge == IF now - last_crop_draw >= CROP_REDRAW_THROTTLE
                       THEN now ELSE last_crop_draw
\* CropOverlay._queue_draw_throttled: the new value of _last_crop_draw
ThrottledDraw == IF now - last_crop_draw > CROP_REDRAW_THROTTLE
                 THEN now ELSE last_crop_draw

\* CropOverlay._queue_draw_throttled: the request is passed on to queue_draw
DrawPasses == ThrottledDraw # last_crop_draw

\* CropOverlay.set_crop_enabled
set_crop_enabled(enabled) ==
    /\ crop_enabled' = enabled
    /\ draw_pending' = TRUE
    /\ UNCHANGED painted_crop
    /\ UNCHANGED << crop_x, crop_y, crop_w, crop_h,
                    overlay_video_width, overlay_video_height,
                    dragging, drag_start_x, drag_start_y, drag_start_crop,
                    cached_rect, last_rect_calc, last_crop_draw, is_visible,
                    widget_w, widget_h, gesture_active, now >>

\* CropOverlay.set_video_size
set_video_size(w, h) ==
    /\ overlay_video_width' = w
    /\ overlay_video_height' = h
    /\ last_crop_draw' = IF is_visible THEN ThrottledDraw ELSE last_crop_draw
    /\ draw_pending' = (draw_pending \/ (is_visible /\ DrawPasses))
    /\ UNCHANGED painted_crop
    /\ UNCHANGED << crop_enabled, crop_x, crop_y, crop_w, crop_h,
                    dragging, drag_start_x, drag_start_y, drag_start_crop,
                    cached_rect, last_rect_calc, is_visible,
                    widget_w, widget_h, gesture_active, now >>

\* CropOverlay.do_map / do_unmap
do_map ==
    /\ ~is_visible
    /\ is_visible' = TRUE
    /\ draw_pending' = (draw_pending \/ crop_enabled)
    /\ UNCHANGED painted_crop
    /\ UNCHANGED << crop_enabled, crop_x, crop_y, crop_w, crop_h,
                    overlay_video_width, overlay_video_height,
                    dragging, drag_start_x, drag_start_y, drag_start_crop,
                    cached_rect, last_rect_calc, last_crop_draw,
                    widget_w, widget_h, gesture_active, now >>

do_unmap ==
    /\ is_visible
    /\ is_visible' = FALSE
    /\ UNCHANGED << draw_pending, painted_crop >>
    /\ UNCHANGED << crop_enabled, crop_x, crop_y, crop_w, crop_h,
                    overlay_video_width, overlay_video_height,
                    dragging, drag_start_x, drag_start_y, drag_start_crop,
                    cached_rect, last_rect_calc, last_crop_draw,
                    widget_w, widget_h, gesture_active, now >>

\* GTK allocates the widget a new size (get_width / get_height)
size_allocate(s) ==
    /\ << widget_w, widget_h >> # s
    /\ widget_w' = s[1]
    /\ widget_h' = s[2]
    /\ UNCHANGED << draw_pending, painted_crop >>
    /\ UNCHANGED << crop_enabled, crop_x, crop_y, crop_w, crop_h,
                    overlay_video_width, overlay_video_height,
                    dragging, drag_start_x, drag_start_y, drag_start_crop,
                    cached_rect, last_rect_calc, last_crop_draw, is_visible,
                    gesture_active, now >>

\* CropOverlay.on_drag_begin
on_drag_begin(x, y) ==
    /\ ~gesture_active
    /\ gesture_active' = TRUE
    /\ UNCHANGED << draw_pending, painted_crop >>
    /\ IF ~crop_enabled
       THEN UNCHANGED << dragging, drag_start_x, drag_start_y, drag_start_crop >>
       ELSE /\ dragging' = _get_handle_at(x, y,
                              _displayed_video_rect(widget_w, widget_h,
                                  overlay_video_width, overlay_video_height),
                              crop_x, crop_y, crop_w, crop_h)
            /\ drag_start_x' = x
            /\ drag_start_y' = y
            /\ drag_start_crop' = << crop_x, crop_y, crop_w, crop_h >>
    /\ UNCHANGED << crop_enabled, crop_x, crop_y, crop_w, crop_h,
                    overlay_video_width, overlay_video_height,
                    cached_rect, last_rect_calc, last_crop_draw, is_visible,
                    widget_w, widget_h, now >>

\* an origin that follows the rectangle as the gesture goes on
DragOriginCurrent == << crop_x, crop_y, crop_w, crop_h >>
\* line 708: the rectangle the deltas of a gesture are applied to
DragOrigin == drag_start_crop

\* an update that is ignored only for want of a handle
UpdateIgnoredWithoutHandle == dragging = NoHandle
\* line 695: the update returns at once
UpdateIgnored == ~crop_enabled \/ dragging = NoHandle

\* CropOverlay.on_drag_update, whenever it is called
DragUpdateCall(dx, dy) ==
    /\ IF UpdateIgnored
       THEN UNCHANGED << crop_x, crop_y, crop_w, crop_h,
                         cached_rect, last_rect_calc, last_crop_draw,
                         draw_pending >>
       ELSE LET refresh == cached_rect = NoRect
                           \/ now - last_rect_calc > RECT_CACHE_DURATION
                rect == IF refresh
                        THEN _displayed_video_rect(widget_w, widget_h,
                                 overlay_video_width, overlay_video_height)
                        ELSE cached_rect
                disp_w == rect[3]
                disp_h == rect[4]
            IN  /\ cached_rect' = rect
                /\ last_rect_calc' = IF refresh THEN now ELSE last_rect_calc
                /\ IF disp_w <= 0 \/ disp_h <= 0
                   THEN UNCHANGED << crop_x, crop_y, crop_w, crop_h,
                                     last_crop_draw, draw_pending >>
                   ELSE LET rdx == (dx * CropDen) \div disp_w
                            rdy == (dy * CropDen) \div disp_h
                            c == FinalClamp(DragRule(dragging,
                                     << crop_x, crop_y, crop_w, crop_h >>,
                                     DragOrigin, rdx, rdy))
                        IN  /\ crop_x' = c[1]
                            /\ crop_y' = c[2]
                            /\ crop_w' = c[3]
                            /\ crop_h' = c[4]
                            /\ last_crop_draw' = IF is_visible THEN ThrottledDraw
                                                 ELSE last_crop_draw
                            /\ draw_pending' =
                                 (draw_pending \/ (is_visible /\ DrawPasses))
    /\ UNCHANGED << crop_enabled, overlay_video_width, overlay_video_height,
                    dragging, drag_start_x, drag_start_y, drag_start_crop,
                    is_visible, widget_w, widget_h, gesture_active, now,
                    painted_crop >>

\* CropOverlay.on_drag_update as GTK calls it: between drag-begin and drag-end
on_drag_update(dx, dy) == gesture_active /\ DragUpdateCall(dx, dy)

\* CropOverlay.on_drag_end
on_drag_end ==
    /\ gesture_active
    /\ gesture_active' = FALSE
    /\ UNCHANGED << draw_pending, painted_crop >>
    /\ dragging' = NoHandle
    /\ UNCHANGED << crop_enabled, crop_x, crop_y, crop_w, crop_h,
                    overlay_video_width, overlay_video_height,
                    drag_start_x, drag_start_y, drag_start_crop,
                    cached_rect, last_rect_calc, last_crop_draw, is_visible,
                    widget_w, widget_h, now >>

\* CropOverlay.do_snapshot: GTK paints the frame of a queued redraw; the
\* overlay draws its rectangle only in crop mode
do_snapshot ==
    /\ draw_pending
    /\ is_visible
    /\ draw_pending' = FALSE
    /\ painted_crop' = IF crop_enabled THEN << crop_x, crop_y, crop_w, crop_h >>
                       ELSE NoRect
    /\ UNCHANGED << crop_enabled, crop_x, crop_y, crop_w, crop_h,
                    overlay_video_width, overlay_video_height,
                    dragging, drag_start_x, drag_start_y, drag_start_crop,
                    cached_rect, last_rect_calc, last_crop_draw, is_visible,
                    widget_w, widget_h, gesture_active, now >>

\* time.monotonic() advances by d ticks of 1/60 s
Tick(d) ==
    /\ now + d <= MaxClock
    /\ now' = now + d
    /\ UNCHANGED << draw_pending, painted_crop >>
    /\ UNCHANGED << crop_enabled, crop_x, crop_y, crop_w, crop_h,
                    overlay_video_width, overlay_video_height,
                    dragging, drag_start_x, drag_start_y, drag_start_crop,
                    cached_rect, last_rect_calc, last_crop_draw, is_visible,
                    widget_w, widget_h, gesture_active >>

CropToggle == \E enabled \in BOOLEAN : set_crop_enabled(enabled)
VideoSized == \E s \in VideoSizes : set_video_size(s[1], s[2])
Allocate == \E s \in WidgetSizes : size_allocate(s)
DragBegin == \E p \in PointerPositions : on_drag_begin(p[1], p[2])
DragUpdate == \E d \in DragDeltas : on_drag_update(d[1], d[2])
Pause == \E d \in ClockSteps : Tick(d)

\* ================================================================
\*                    texts and times (src/utils.py)
\* ================================================================
\* A text is a sequence of one-character strings.  The alphabet of the
\* model is the digits, ":", ".", the blank and the letter "x" (any
\* character that is neither of the others).

ParseError == 0 - 1               \* the ValueError of a conversion
NoTime == 0 - 2                   \* Python's None for a time in ms

DigitChars == << "0", "1", "2", "3", "4", "5", "6", "7", "8", "9" >>
IsDigit(ch) == \E d \in 1..10 : DigitChars[d] = ch
DigitVal(ch) == (CHOOSE d \in 1..10 : DigitChars[d] = ch) - 1
IsSpace(ch) == ch = " "

\* str.strip()
RECURSIVE LStrip(_)
LStrip(t) == IF t # << >> /\ IsSpace(Head(t)) THEN LStrip(Tail(t)) ELSE t

RECURSIVE RStrip(_)
RStrip(t) == IF t # << >> /\ IsSpace(t[Len(t)])
             THEN RStrip(SubSeq(t, 1, Len(t) - 1)) ELSE t

Strip(t) == RStrip(LStrip(t))

\* str.find(ch) from position i on, 1-based; 0 when ch does not occur
RECURSIVE Find(_, _, _)
Find(t, ch, i) == IF i > Len(t) THEN 0
                  ELSE IF t[i] = ch THEN i ELSE Find(t, ch, i + 1)

\* str.split(sep)
RECURSIVE Split(_, _)
Split(t, sep) ==
    LET i == Find(t, sep, 1)
    IN  IF i = 0 THEN << t >>
        ELSE << SubSeq(t, 1, i - 1) >> \o Split(SubSeq(t, i + 1, Len(t)), sep)

\* sep.join(parts)
RECURSIVE Join(_, _)
Join(parts, sep) ==
    IF Len(parts) = 0 THEN << >>
    ELSE IF Len(parts) = 1 THEN parts[1]
    ELSE parts[1] \o << sep >> \o Join(Tail(parts), sep)

\* int(s) on the alphabet of the model: blanks around a non-empty run of
\* digits; everything else raises
RECURSIVE DigitsValue(_, _)
DigitsValue(t, acc) ==
    IF t = << >> THEN acc
    ELSE IF IsDigit(Head(t)) THEN DigitsValue(Tail(t), 10 * acc + DigitVal(Head(t)))
    ELSE ParseError

PyInt(s) == IF Strip(s) = << >> THEN ParseError ELSE DigitsValue(Strip(s), 0)

\* the seconds part 'S[.mmm]' of hmsms_to_seconds (lines 40-46, 52-58 and
\* 65-71), in ms: the fraction is padded with zeros and cut to three
\* characters before it is converted
SecondsPart(s_part) ==
    LET dot == Find(s_part, ".", 1)
        sec_str == IF dot = 0 THEN s_part ELSE SubSeq(s_part, 1, dot - 1)
        ms_str == IF dot = 0 THEN << "0" >>
                  ELSE SubSeq(s_part, dot + 1, Len(s_part))
        seconds == PyInt(sec_str)
        milliseconds == PyInt(SubSeq(ms_str \o << "0", "0", "0" >>, 1, 3))
    IN  IF seconds = ParseError \/ milliseconds = ParseError THEN ParseError
        ELSE seconds * 1000 + milliseconds

\* a seconds part that converts the whole fraction
SecondsPartWholeFraction(s_part) ==
    LET dot == Find(s_part, ".", 1)
        sec_str == IF dot = 0 THEN s_part ELSE SubSeq(s_part, 1, dot - 1)
        ms_str == IF dot = 0 THEN << "0" >>
                  ELSE SubSeq(s_part, dot + 1, Len(s_part))
        seconds == PyInt(sec_str)
        whole == PyInt(ms_str \o << "0" >>)
        milliseconds == PyInt(SubSeq(ms_str \o << "0", "0", "0" >>, 1, 3))
    IN  IF seconds = ParseError \/ whole = ParseError THEN ParseError
        ELSE seconds * 1000 + milliseconds

\* a parser that takes the full form H:M:S only
HmsmsFullFormOnly(text) ==
    IF Strip(text) = << >> THEN ParseError
    ELSE LET parts == Split(Strip(text), ":")
             n == Len(parts)
             hours == IF n >= 3 THEN PyInt(parts[1]) ELSE ParseError
             minutes == IF n >= 3 THEN PyInt(parts[2]) ELSE ParseError
             s_ms == IF n >= 3 THEN SecondsPart(Join(SubSeq(parts, 3, n), ":"))
                     ELSE ParseError
         IN  IF hours = ParseError \/ minutes = ParseError \/ s_ms = ParseError
             THEN ParseError
             ELSE hours * 3600000 + minutes * 60000 + s_ms
\* utils.hmsms_to_seconds: the time in ms, or ParseError for ValueError
hmsms_to_seconds(text) ==
    IF Strip(text) = << >> THEN ParseError
    ELSE LET parts == Split(Strip(text), ":")
             n == Len(parts)
             hours == IF n >= 3 THEN PyInt(parts[1]) ELSE 0
             minutes == IF n >= 3 THEN PyInt(parts[2])
                        ELSE IF n = 2 THEN PyInt(parts[1]) ELSE 0
             s_ms == IF n >= 3 THEN SecondsPart(Join(SubSeq(parts, 3, n), ":"))
                     ELSE SecondsPart(parts[n])
         IN  IF hours = ParseError \/ minutes = ParseError \/ s_ms = ParseError
             THEN ParseError
             ELSE hours * 3600000 + minutes * 60000 + s_ms

\* the decimal digits of a natural number
RECURSIVE NatDigits(_)
NatDigits(n) == IF n < 10 THEN << DigitChars[n + 1] >>
                ELSE NatDigits(n \div 10) \o << DigitChars[(n % 10) + 1] >>

\* format(n, '0<width>') for n >= 0
ZeroPad(n, width) ==
    LET d == NatDigits(n)
    IN  IF Len(d) >= width THEN d
        ELSE [ i \in 1..(width - Len(d)) |-> "0" ] \o d

\* a formatter that does not pad the milliseconds
SecondsToHmsmsUnpadded(seconds) ==
    LET total_ms == IF seconds = NoTime THEN 0 ELSE seconds
        ms == total_ms % 1000
        total_s == total_ms \div 1000
        s == total_s % 60
        m == (total_s \div 60) % 60
        h == (total_s \div 60) \div 60
    IN  ZeroPad(h, 2) \o << ":" >> \o ZeroPad(m, 2) \o << ":" >>
        \o ZeroPad(s, 2) \o << "." >> \o NatDigits(ms)

\* utils.seconds_to_hmsms of a time given in ms (total_ms, after the
\* rounding of line 23), for total_ms >= 0
seconds_to_hmsms(seconds) ==
    LET total_ms == IF seconds = NoTime THEN 0 ELSE seconds
        ms == total_ms % 1000
        total_s == total_ms \div 1000
        s == total_s % 60
        m == (total_s \div 60) % 60
        h == (total_s \div 60) \div 60
    IN  ZeroPad(h, 2) \o << ":" >> \o ZeroPad(m, 2) \o << ":" >>
        \o ZeroPad(s, 2) \o << "." >> \o ZeroPad(ms, 3)

\* ================================================================
\*                   CropOverlay.get_crop_params
\* ================================================================

\* round(n / d) for n >= 0, d > 0: Python rounds halves to even
RoundHalfEven(n, d) ==
    LET q == n \div d
        r == n % d
    IN  IF 2 * r < d THEN q
        ELSE IF 2 * r > d THEN q + 1
        ELSE IF q % 2 = 0 THEN q ELSE q + 1

\* CropOverlay.get_crop_params(video_width, video_height) on a widget of
\* size ww x wh and the crop rectangle c: <<x, y, w, h>> in video pixels
get_crop_params(c, video_width, video_height, ww, wh) ==
    IF ww <= 0 \/ wh <= 0 \/ ~Truthy(video_width) \/ ~Truthy(video_height)
    THEN << 0, 0, IF Truthy(video_width) THEN video_width ELSE 0,
                  IF Truthy(video_height) THEN video_height ELSE 0 >>
    ELSE LET x0 == RoundHalfEven(c[1] * video_width, CropDen)
             y0 == RoundHalfEven(c[2] * video_height, CropDen)
             w0 == RoundHalfEven(c[3] * video_width, CropDen)
             h0 == RoundHalfEven(c[4] * video_height, CropDen)
             w1 == IF w0 % 2 # 0 THEN w0 - 1 ELSE w0
             h1 == IF h0 % 2 # 0 THEN h0 - 1 ELSE h0
             w == IF w1 < 2 THEN 2 ELSE w1
             h == IF h1 < 2 THEN 2 ELSE h1
         IN  << Max(0, Min(video_width - w, x0)),
                Max(0, Min(video_height - h, y0)), w, h >>

VARIABLES
    crop_params,                  \* the last result of get_crop_params
    crop_params_video             \* the video size it was asked for

paramVars == << crop_params, crop_params_video >>

ParamsInit ==
    /\ crop_params = NoRect
    /\ crop_params_video = NoRect

\* _do_export asks the overlay for the pixel crop of a video_width x
\* video_height video, passing the allocation of the video widget, which the
\* overlay covers
CropParamsCall(video_width, video_height) ==
    /\ crop_params' = get_crop_params(<< crop_x, crop_y, crop_w, crop_h >>,
                          video_width, video_height, widget_w, widget_h)
    /\ crop_params_video' = << video_width, video_height >>

\* ================================================================
\*        EmendoApp: opening a file and probing its metadata
\* ================================================================
DEFAULT_FPS == 60000              \* 60.0, in thousandths of a frame per second
NoPath == ""                      \* filepath is None
NoMessage == [ kind |-> "none" ]
NoError == ""                     \* no error dialog was shown yet

VARIABLES
    filepath,
    metadata_request_id,
    probes,                       \* the probe threads that did not finish yet
    meta_queue,                   \* GLib.idle_add: callbacks waiting for the main loop
    duration, video_width, video_height, video_fps,
    start_text, end_text,         \* start_entry / end_entry
    loading,                      \* the loading spinner is shown
    shown_error,                  \* title of the last _show_error dialog
    meta_last                     \* the callback the main loop ran last

metaVars == << filepath, metadata_request_id, probes, meta_queue,
               duration, video_width, video_height, video_fps,
               start_text, end_text, loading, shown_error, meta_last >>

metaRest == << filepath, metadata_request_id, probes, meta_queue,
               duration, video_width, video_height, video_fps,
               start_text, end_text, loading, meta_last >>

\* EmendoApp.__init__ and do_activate
MetaInit ==
    /\ filepath = NoPath
    /\ metadata_request_id = 0
    /\ probes = { }
    /\ meta_queue = << >>
    /\ duration = NoTime
    /\ video_width = NoSize
    /\ video_height = NoSize
    /\ video_fps = DEFAULT_FPS
    /\ start_text = << >>
    /\ end_text = << >>
    /\ loading = FALSE
    /\ shown_error = NoError
    /\ meta_last = NoMessage

\* EmendoApp._open_file(path); load_ok: _replace_video_widget did not raise
_open_file(path, load_ok) ==
    /\ path # NoPath
    /\ filepath' = path
    /\ IF load_ok
       THEN /\ metadata_request_id < MaxRequests
            /\ metadata_request_id' = metadata_request_id + 1
            /\ probes' = probes \cup
                  { [ path |-> path, request_id |-> metadata_request_id + 1 ] }
            /\ loading' = TRUE
            /\ UNCHANGED shown_error
       ELSE /\ loading' = FALSE
            /\ shown_error' = "Video Load Error"
            /\ UNCHANGED << metadata_request_id, probes >>
    /\ UNCHANGED << meta_queue, duration, video_width, video_height, video_fps,
                    start_text, end_text, meta_last >>

\* the thread of _load_video_metadata_async ends: probe_video_metadata
\* returned or raised, and the callback is handed to the main loop
load_metadata(p, outcome) ==
    /\ p \in probes
    /\ probes' = probes \ { p }
    /\ meta_queue' = Append(meta_queue,
           [ path |-> p.path, request_id |-> p.request_id, result |-> outcome ])
    /\ UNCHANGED << filepath, metadata_request_id,
                    duration, video_width, video_height, video_fps,
                    start_text, end_text, loading, shown_error, meta_last >>

\* a stale check that compares the request id only
IsStaleIdOnly(path, request_id) == request_id # metadata_request_id

\* the stale check of _on_metadata_loaded / _on_metadata_error
IsStale(path, request_id) ==
    request_id # metadata_request_id \/ path # filepath

\* EmendoApp._on_metadata_loaded; its call of crop_overlay.set_video_size
\* is the conjunct on the overlay's variables
_on_metadata_loaded(m) ==
    IF IsStale(m.path, m.request_id)
    THEN UNCHANGED << duration, video_width, video_height, video_fps,
                      start_text, end_text, loading, shown_error, cropVars >>
    ELSE /\ loading' = FALSE
         /\ duration' = m.result.duration
         /\ video_width' = m.result.width
         /\ video_height' = m.result.height
         /\ video_fps' = m.result.fps
         /\ IF m.result.duration # NoTime
            THEN /\ start_text' = seconds_to_hmsms(0)
                 /\ end_text' = seconds_to_hmsms(m.result.duration)
            ELSE UNCHANGED << start_text, end_text >>
         /\ IF Truthy(m.result.width) /\ Truthy(m.result.height)
            THEN set_video_size(m.result.width, m.result.height)
            ELSE UNCHANGED cropVars
         /\ shown_error' =
               IF m.result.duration = NoTime
                  \/ m.result.width = NoSize \/ m.result.height = NoSize
               THEN "Metadata Error" ELSE shown_error

\* EmendoApp._on_metadata_error
_on_metadata_error(m) ==
    IF IsStale(m.path, m.request_id)
    THEN UNCHANGED << duration, video_width, video_height, video_fps,
                      start_text, end_text, loading, shown_error, cropVars >>
    ELSE /\ loading' = FALSE
         /\ shown_error' = m.result.title
         /\ duration' = NoTime
         /\ video_width' = NoSize
         /\ video_height' = NoSize
         /\ UNCHANGED << video_fps, start_text, end_text, cropVars >>

\* the main loop runs the next metadata callback
MetaDispatch ==
    /\ meta_queue # << >>
    /\ LET m == Head(meta_queue)
       IN  /\ meta_queue' = Tail(meta_queue)
           /\ meta_last' = m
           /\ IF m.result.kind = "loaded"
              THEN _on_metadata_loaded(m) ELSE _on_metadata_error(m)
    /\ UNCHANGED << filepath, metadata_request_id, probes >>

OpenFile == \E path \in Paths, load_ok \in BOOLEAN : _open_file(path, load_ok)
ProbeEnds == \E p \in probes, outcome \in ProbeOutcomes : load_metadata(p, outcome)

\* ================================================================
\*       EmendoApp._start_ffmpeg_thread: the export worker
\* ================================================================
\* The wall clock time.time() counts ticks of 1/20 s from a base that lies
\* WallStart ticks before the job starts; media times are in ms, and a
\* progress value is its numerator over the trim span in ms.
TicksPerSecond == 20
FFMPEG_PROGRESS_THROTTLE == 2     \* 0.1 s, in ticks of 1/20 s
MaxSamples == 10                  \* the size of the window of speed samples
NoProcess == 0                    \* _ffmpeg_process is None
TheProcess == 1                   \* the Popen object of the job
NoCode == 0 - 1000                \* the process has no exit code yet
KilledCode == 0 - 9               \* the exit code of a killed process
NoProg == 0 - 1                   \* prog was not computed yet

VARIABLES
    export_cancel_requested,      \* self._export_cancel_requested
    ffmpeg_process,               \* self._ffmpeg_process
    proc_state,                   \* the external process: none, running, exited
    proc_ret,                     \* its exit code
    worker_pc,                    \* run_and_monitor: idle, spawn, store, read, wait, done
    ui_pc,                        \* _on_progress_dialog_response: idle, kill
    monitor_pc,                   \* update_system_metrics: none, test, poll, done, crashed
    start_time, end_time,
    lines_read,
    raw_line,                     \* the line the loop read last
    wall,                         \* time.time()
    last_update_time, last_progress, last_progress_time,
    progress_samples,             \* << progress_delta numerator, time_delta >>
    avg_speed,                    \* << n, d >>: avg_speed * duration_span = n / (1000 * d)
    prog, t_seconds,
    ui_queue,                     \* GLib.idle_add: updates waiting for the main loop
    progress_dialog,              \* none, open, destroyed
    progress_view,                \* the widgets of the progress dialog
    post_export_open,             \* _post_export_dialog was shown
    posted,                       \* the terminal results the worker posted
    cancelled_while_running       \* the cancel request found the job's process running

workerLocals == << last_update_time, last_progress, last_progress_time,
                   progress_samples, avg_speed, prog, t_seconds >>

exportVars == << export_cancel_requested, ffmpeg_process, proc_state, proc_ret,
                 worker_pc, ui_pc, monitor_pc, start_time, end_time, lines_read,
                 raw_line, wall, workerLocals, ui_queue, progress_dialog, progress_view,
                 post_export_open, posted, cancelled_while_running >>

\* no line was read yet
NoLine == [ has_time |-> FALSE, rest |-> << >> ]

\* the widgets of a new progress dialog (lines 1983-2054)
InitialView == [ fraction |-> 0, text |-> << >>, speed |-> << "N/A" >>,
                 eta |-> << "Calculating..." >>, detail |-> << "Starting..." >> ]

\* the locals of run_and_monitor (lines 2065-2071), started at time ts
LocalsInit(ts) ==
    /\ last_update_time' = 0
    /\ last_progress' = 0
    /\ last_progress_time' = ts
    /\ progress_samples' = << >>
    /\ avg_speed' = << 0, 1 >>
    /\ prog' = NoProg
    /\ t_seconds' = NoTime

\* EmendoApp.__init__: no export was started
ExportInit ==
    /\ export_cancel_requested = FALSE
    /\ ffmpeg_process = NoProcess
    /\ proc_state = "none"
    /\ proc_ret = NoCode
    /\ worker_pc = "idle"
    /\ ui_pc = "idle"
    /\ monitor_pc = "none"
    /\ start_time = NoTime
    /\ end_time = NoTime
    /\ lines_read = 0
    /\ raw_line = NoLine
    /\ wall = WallStart
    /\ last_update_time = 0
    /\ last_progress = 0
    /\ last_progress_time = 0
    /\ progress_samples = << >>
    /\ avg_speed = << 0, 1 >>
    /\ prog = NoProg
    /\ t_seconds = NoTime
    /\ ui_queue = << >>
    /\ progress_dialog = "none"
    /\ progress_view = InitialView
    /\ post_export_open = FALSE
    /\ posted = << >>
    /\ cancelled_while_running = FALSE

\* the length of the run of digits of t that starts at position i
RECURSIVE DigitRun(_, _)
DigitRun(t, i) == IF i <= Len(t) /\ IsDigit(t[i]) THEN 1 + DigitRun(t, i + 1) ELSE 0

\* the group of the regular expression time=(\d+:\d+:\d+\.?\d*) on the text
\* that follows "time="; << >> when it does not match
TimeMatch(rest) ==
    LET a == DigitRun(rest, 1)
        b == DigitRun(rest, a + 2)
        c == DigitRun(rest, a + b + 3)
        e == a + b + c + 2
        f == IF e + 1 <= Len(rest) /\ rest[e + 1] = "."
             THEN 1 + DigitRun(rest, e + 2) ELSE 0
    IN  IF /\ a >= 1 /\ a + 1 <= Len(rest) /\ rest[a + 1] = ":"
           /\ b >= 1 /\ a + b + 2 <= Len(rest) /\ rest[a + b + 2] = ":"
           /\ c >= 1
        THEN SubSeq(rest, 1, e + f) ELSE << >>

\* media_services.parse_ffmpeg_time_seconds on a line of ffmpeg's stderr; a
\* line is [has_time, rest]: whether it holds "time=", and the text after it
parse_ffmpeg_time_seconds(line) ==
    IF ~line.has_time \/ TimeMatch(line.rest) = << >> THEN NoTime
    ELSE IF hmsms_to_seconds(TimeMatch(line.rest)) = ParseError THEN NoTime
    ELSE hmsms_to_seconds(TimeMatch(line.rest))

\* duration_span (line 2066) in ms; on_export starts a job only with
\* end > start, where max(1e-6, end - start) is end - start
DurationSpan(s, e) == Max(1, e - s)

\* line 2125: the half second before the start of the trim, in ms, from
\* which a timestamp counts as one of the trimmed timeline
SeekGrace == 500

\* a progress that is always measured from the start of the trim
NormalizedProgressNoGrace(t, s, e) ==
    Max(0, Min(DurationSpan(s, e), t - s))

\* the normalized progress of lines 2125-2129, as a numerator over the span
NormalizedProgress(t, s, e) ==
    Max(0, Min(DurationSpan(s, e),
               IF t >= s - SeekGrace THEN t - s ELSE t))

\* the greatest common divisor, for exact fractions
RECURSIVE GCD(_, _)
GCD(a, b) == IF b = 0 THEN a ELSE GCD(b, a % b)

\* the sum of the samples progress_delta / time_delta as << n, d >>
RECURSIVE SumRate(_)
SumRate(samples) ==
    IF samples = << >> THEN << 0, 1 >>
    ELSE LET r == SumRate(Tail(samples))
             h == Head(samples)
             l == (h[2] * r[2]) \div GCD(h[2], r[2])
         IN  << h[1] * (l \div h[2]) + r[1] * (l \div r[2]), l >>

\* self._format_elapsed_time
_format_elapsed_time(seconds) ==
    ZeroPad(seconds \div 3600, 2) \o << ":" >>
    \o ZeroPad((seconds % 3600) \div 60, 2) \o << ":" >>
    \o ZeroPad(seconds % 60, 2)

\* f"{speed_multiplier:.2f}x" for the multiplier n / (1000 * d)
SpeedText(n, d) ==
    LET hundredths == RoundHalfEven(n, 10 * d)
    IN  NatDigits(hundredths \div 100) \o << "." >>
        \o ZeroPad(hundredths % 100, 2) \o << "x" >>

\* one terminal or progress update handed to the main loop
Message(kind, fraction, text, speed, eta, detail, ret) ==
    [ kind |-> kind, fraction |-> fraction, text |-> text, speed |-> speed,
      eta |-> eta, detail |-> detail, ret |-> ret ]

\* an ETA that does not wait for some progress
EtaTextNoWait(p, span, avg) ==
    LET eta_seconds == ((span - p) * avg[2]) \div avg[1]
    IN  IF avg[1] > 0
        THEN IF eta_seconds < 3600 THEN _format_elapsed_time(eta_seconds)
             ELSE << ">1 hour" >>
        ELSE << "Calculating..." >>

\* lines 2153-2161: the ETA of a progress p over span at the average speed
\* avg = << n, d >>, in units of the span per second
EtaText(p, span, avg) ==
    LET eta_seconds == ((span - p) * avg[2]) \div avg[1]
    IN  IF 100 * p > span /\ avg[1] > 0
        THEN IF eta_seconds < 3600 THEN _format_elapsed_time(eta_seconds)
             ELSE << ">1 hour" >>
        ELSE << "Calculating..." >>

\* a throttle that lets an update through at exactly 0.1 s
ProgressDueAtEdge(at) == at - last_update_time >= FFMPEG_PROGRESS_THROTTLE
\* line 2131: more than FFMPEG_PROGRESS_THROTTLE has passed since the last update
ProgressDue(at) == at - last_update_time > FFMPEG_PROGRESS_THROTTLE

\* a terminal result that is a failure whatever the worker found
TerminalWithoutSuccess(kind, ret) == Message("failed", 0, << >>, << >>, << >>, << >>, ret)

\* a terminal result: only its kind and its exit code are used
Terminal(kind, ret) == Message(kind, 0, << >>, << >>, << >>, << >>, ret)

\* a worker that posts its terminal result without the exit code
PostTerminalNoCode(kind, ret) ==
    /\ ui_queue' = Append(ui_queue, Terminal(kind, NoCode))
    /\ posted' = Append(posted, kind)
    /\ worker_pc' = "done"
\* the worker posts a terminal result and ends
PostTerminal(kind, ret) ==
    /\ ui_queue' = Append(ui_queue, Terminal(kind, ret))
    /\ posted' = Append(posted, kind)
    /\ worker_pc' = "done"

\* EmendoApp._start_ffmpeg_thread(cmd, start_time, end_time, output_path);
\* codec_info_ok: the ffprobe run of _get_codec_info did not raise
_start_ffmpeg_thread(s, e, codec_info_ok) ==
    /\ export_cancel_requested' = FALSE
    /\ ffmpeg_process' = NoProcess
    /\ IF codec_info_ok
       THEN /\ progress_dialog' = "open"
            /\ progress_view' = InitialView
            /\ post_export_open' = FALSE
            /\ worker_pc' = "spawn"
            /\ monitor_pc' = "none"
            /\ proc_state' = "none"
            /\ proc_ret' = NoCode
            /\ start_time' = s
            /\ end_time' = e
            /\ lines_read' = 0
            /\ raw_line' = NoLine
            /\ wall' = WallStart
            /\ LocalsInit(0)
            /\ posted' = << >>
            /\ cancelled_while_running' = FALSE
            /\ UNCHANGED << ui_pc, ui_queue >>
       ELSE UNCHANGED << proc_state, proc_ret, worker_pc, ui_pc, monitor_pc,
                         start_time, end_time, lines_read, raw_line, wall, workerLocals,
                         ui_queue, progress_dialog, progress_view,
                         post_export_open, posted, cancelled_while_running >>

\* line 2061: subprocess.Popen starts ffmpeg or raises
Popen(outcome) ==
    /\ worker_pc = "spawn"
    /\ IF outcome = "started"
       THEN /\ proc_state' = "running"
            /\ worker_pc' = "store"
            /\ UNCHANGED << ui_queue, posted >>
       ELSE /\ PostTerminal("failed", NoCode)
            /\ UNCHANGED proc_state
    /\ UNCHANGED << export_cancel_requested, ffmpeg_process, proc_ret, ui_pc,
                    monitor_pc, start_time, end_time, lines_read, raw_line, wall,
                    workerLocals, progress_dialog, progress_view,
                    post_export_open, cancelled_while_running >>

\* lines 2062-2108: the handle is stored, the locals are set and the
\* sampler thread is started
StoreHandle ==
    /\ worker_pc = "store"
    /\ ffmpeg_process' = TheProcess
    /\ LocalsInit(wall)
    /\ monitor_pc' = "test"
    /\ worker_pc' = "read"
    /\ UNCHANGED << export_cancel_requested, proc_state, proc_ret, ui_pc,
                    start_time, end_time, lines_read, raw_line, wall, ui_queue,
                    progress_dialog, progress_view, post_export_open, posted,
                    cancelled_while_running >>

\* a window whose oldest sample is never evicted
WindowKeepAll(samples, sample) == Append(samples, sample)

\* lines 2140-2142: the window of speed samples after one more sample
Window(samples, sample) ==
    IF Len(samples) + 1 > MaxSamples THEN Tail(Append(samples, sample))
    ELSE Append(samples, sample)

\* a worker that records a speed sample with every delivered update
ProcessLineUnguarded(line, at) ==
    \E t \in { parse_ffmpeg_time_seconds(line) } :
    \E p \in { NormalizedProgress(t, start_time, end_time) } :
    \E samples \in { Window(progress_samples,
                             << p - last_progress, at - last_progress_time >>) } :
    \E r \in { SumRate(samples) } :
    LET span == DurationSpan(start_time, end_time)
        rising == p > last_progress
        sampled == TRUE
        g == GCD(TicksPerSecond * r[1], Len(samples) * r[2])
        avg == IF sampled
               THEN << (TicksPerSecond * r[1]) \div g, (Len(samples) * r[2]) \div g >>
               ELSE avg_speed
        speed_text == IF sampled /\ avg[1] > 0 THEN SpeedText(avg[1], avg[2])
                      ELSE << "N/A" >>
        eta_text == IF rising THEN EtaText(p, span, avg)
                    ELSE << "Calculating..." >>
    IN  /\ t_seconds' = t
        /\ IF t = NoTime
           THEN UNCHANGED << prog, last_update_time, last_progress,
                             last_progress_time, progress_samples, avg_speed,
                             ui_queue >>
           ELSE /\ prog' = p
                /\ IF ProgressDue(at)
                   THEN /\ last_update_time' = at
                        /\ progress_samples' = samples
                        /\ avg_speed' = avg
                        /\ last_progress' = p
                        /\ last_progress_time' = at
                        /\ ui_queue' = Append(ui_queue,
                               Message("progress", p,
                                       NatDigits((100 * p) \div span) \o << "%" >>,
                                       speed_text, eta_text,
                                       << "time=" >> \o TimeMatch(line.rest), NoCode))
                   ELSE UNCHANGED << last_update_time, last_progress,
                                     last_progress_time, progress_samples,
                                     avg_speed, ui_queue >>

\* lines 2121-2173: one line of ffmpeg's stderr, read at time 'at' while no
\* cancellation is requested
ProcessLine(line, at) ==
    \E t \in { parse_ffmpeg_time_seconds(line) } :
    \E p \in { NormalizedProgress(t, start_time, end_time) } :
    \E samples \in { IF p > last_progress /\ at - last_progress_time > 0
                      THEN Window(progress_samples,
                                  << p - last_progress, at - last_progress_time >>)
                      ELSE progress_samples } :
    \E r \in { SumRate(samples) } :
    LET span == DurationSpan(start_time, end_time)
        rising == p > last_progress
        sampled == rising /\ at - last_progress_time > 0
        g == GCD(TicksPerSecond * r[1], Len(samples) * r[2])
        avg == IF sampled
               THEN << (TicksPerSecond * r[1]) \div g, (Len(samples) * r[2]) \div g >>
               ELSE avg_speed
        speed_text == IF sampled /\ avg[1] > 0 THEN SpeedText(avg[1], avg[2])
                      ELSE << "N/A" >>
        eta_text == IF rising THEN EtaText(p, span, avg)
                    ELSE << "Calculating..." >>
    IN  /\ t_seconds' = t
        /\ IF t = NoTime
           THEN UNCHANGED << prog, last_update_time, last_progress,
                             last_progress_time, progress_samples, avg_speed,
                             ui_queue >>
           ELSE /\ prog' = p
                /\ IF ProgressDue(at)
                   THEN /\ last_update_time' = at
                        /\ progress_samples' = samples
                        /\ avg_speed' = avg
                        /\ last_progress' = p
                        /\ last_progress_time' = at
                        /\ ui_queue' = Append(ui_queue,
                               Message("progress", p,
                                       NatDigits((100 * p) \div span) \o << "%" >>,
                                       speed_text, eta_text,
                                       << "time=" >> \o TimeMatch(line.rest), NoCode))
                   ELSE UNCHANGED << last_update_time, last_progress,
                                     last_progress_time, progress_samples,
                                     avg_speed, ui_queue >>

\* lines 2111-2173: one iteration of the loop, on a line that comes dt ticks
\* later; with the cancel flag set it kills the process and leaves the loop
LoopLine(line, dt) ==
    /\ worker_pc = "read"
    /\ lines_read' = lines_read + 1
    /\ raw_line' = line
    /\ wall' = wall + dt
    /\ IF export_cancel_requested
       THEN /\ worker_pc' = "wait"
            /\ proc_state' = "exited"
            /\ proc_ret' = IF proc_state = "running" THEN KilledCode ELSE proc_ret
            /\ UNCHANGED << workerLocals, ui_queue >>
       ELSE /\ ProcessLine(line, wall + dt)
            /\ UNCHANGED << worker_pc, proc_state, proc_ret >>
    /\ UNCHANGED << export_cancel_requested, ffmpeg_process, ui_pc, monitor_pc,
                    start_time, end_time, progress_dialog, progress_view,
                    post_export_open, posted, cancelled_while_running >>

\* a loop that looks at the cancel flag after it has processed the line
ReadLineCheckAfter(line, dt) ==
    /\ worker_pc = "read"
    /\ lines_read < MaxLines
    /\ lines_read' = lines_read + 1
    /\ raw_line' = line
    /\ wall' = wall + dt
    /\ ProcessLine(line, wall + dt)
    /\ IF export_cancel_requested
       THEN /\ worker_pc' = "wait"
            /\ proc_state' = "exited"
            /\ proc_ret' = IF proc_state = "running" THEN KilledCode ELSE proc_ret
       ELSE UNCHANGED << worker_pc, proc_state, proc_ret >>
    /\ UNCHANGED << export_cancel_requested, ffmpeg_process, ui_pc, monitor_pc,
                    start_time, end_time, progress_dialog, progress_view,
                    post_export_open, posted, cancelled_while_running >>
\* the loop reads the next line of a job of at most MaxLines lines
ReadLine(line, dt) == lines_read < MaxLines /\ LoopLine(line, dt)

\* line 2111: the pipe is at its end once the process has exited
ReadEOF ==
    /\ worker_pc = "read"
    /\ proc_state = "exited"
    /\ worker_pc' = "wait"
    /\ UNCHANGED << export_cancel_requested, ffmpeg_process, proc_state, proc_ret,
                    ui_pc, monitor_pc, start_time, end_time, lines_read, raw_line, wall,
                    workerLocals, ui_queue, progress_dialog, progress_view,
                    post_export_open, posted, cancelled_while_running >>

\* lines 2111 and 2208-2212: reading or decoding the output raises (the
\* pipe is read as text); the handler posts 'Export Failed'
ReadError ==
    /\ worker_pc = "read"
    /\ PostTerminal("failed", NoCode)
    /\ UNCHANGED << export_cancel_requested, ffmpeg_process, proc_state, proc_ret,
                    ui_pc, monitor_pc, start_time, end_time, lines_read, raw_line, wall,
                    workerLocals, progress_dialog, progress_view,
                    post_export_open, cancelled_while_running >>

\* lines 2175-2197: proc.wait() returns, the handle is cleared and the
\* terminal result is posted
WaitExit ==
    /\ worker_pc = "wait"
    /\ proc_state = "exited"
    /\ ffmpeg_process' = NoProcess
    /\ IF export_cancel_requested THEN PostTerminal("cancelled", proc_ret)
       ELSE IF proc_ret = 0 THEN PostTerminal("success", proc_ret)
       ELSE PostTerminal("failed", proc_ret)
    /\ UNCHANGED << export_cancel_requested, proc_state, proc_ret, ui_pc,
                    monitor_pc, start_time, end_time, lines_read, raw_line, wall,
                    workerLocals, progress_dialog, progress_view,
                    post_export_open, cancelled_while_running >>

\* ffmpeg ends by itself with an exit code
ProcExit(code) ==
    /\ proc_state = "running"
    /\ proc_state' = "exited"
    /\ proc_ret' = code
    /\ UNCHANGED << export_cancel_requested, ffmpeg_process, worker_pc, ui_pc,
                    monitor_pc, start_time, end_time, lines_read, raw_line, wall,
                    workerLocals, ui_queue, progress_dialog, progress_view,
                    post_export_open, posted, cancelled_while_running >>

\* EmendoApp._on_progress_dialog_response(CANCEL), line 2220: the flag is set
CancelRequested ==
    /\ progress_dialog = "open"
    /\ ui_pc = "idle"
    /\ export_cancel_requested' = TRUE
    /\ ui_pc' = "kill"
    /\ cancelled_while_running' =
          \/ cancelled_while_running
          \/ proc_state = "running" /\ worker_pc # "done"
    /\ UNCHANGED << ffmpeg_process, proc_state, proc_ret, worker_pc, monitor_pc,
                    start_time, end_time, lines_read, raw_line, wall, workerLocals,
                    ui_queue, progress_dialog, progress_view, post_export_open,
                    posted >>

\* EmendoApp._on_progress_dialog_response(CANCEL), lines 2221-2225: the
\* process behind the handle, if there is one, is killed
CancelKill ==
    /\ ui_pc = "kill"
    /\ ui_pc' = "idle"
    /\ IF ffmpeg_process # NoProcess /\ proc_state = "running"
       THEN proc_state' = "exited" /\ proc_ret' = KilledCode
       ELSE UNCHANGED << proc_state, proc_ret >>
    /\ UNCHANGED << export_cancel_requested, ffmpeg_process, worker_pc,
                    monitor_pc, start_time, end_time, lines_read, raw_line, wall,
                    workerLocals, ui_queue, progress_dialog, progress_view,
                    post_export_open, posted, cancelled_while_running >>

\* the main loop runs the next update of the queue: a progress update
\* (lines 2169-2173) or a terminal one (2180-2182, 2187-2191, 2195-2196);
\* 'cancelled' ends with progress_dialog.response(CANCEL), which runs
\* _on_progress_dialog_response
Dispatch ==
    /\ ui_queue # << >>
    /\ ui_pc = "idle"
    /\ ui_queue' = Tail(ui_queue)
    /\ LET m == Head(ui_queue)
       IN  CASE m.kind = "progress" ->
                  /\ progress_view' = [ fraction |-> m.fraction, text |-> m.text,
                                        speed |-> m.speed, eta |-> m.eta,
                                        detail |-> m.detail ]
                  /\ UNCHANGED << export_cancel_requested, proc_state, proc_ret,
                                  progress_dialog, post_export_open, shown_error >>
             [] m.kind = "cancelled" ->
                  /\ progress_view' = [ progress_view EXCEPT
                                          !.text = << "Cancelled" >>,
                                          !.detail = << "Cancelled by user" >> ]
                  /\ export_cancel_requested' = TRUE
                  /\ IF ffmpeg_process # NoProcess /\ proc_state = "running"
                     THEN proc_state' = "exited" /\ proc_ret' = KilledCode
                     ELSE UNCHANGED << proc_state, proc_ret >>
                  /\ UNCHANGED << progress_dialog, post_export_open, shown_error >>
             [] m.kind = "success" ->
                  /\ progress_view' = [ progress_view EXCEPT
                                          !.fraction = DurationSpan(start_time, end_time),
                                          !.text = << "100%" >>,
                                          !.detail = << "Completed" >> ]
                  /\ progress_dialog' = "destroyed"
                  /\ post_export_open' = TRUE
                  /\ UNCHANGED << export_cancel_requested, proc_state, proc_ret,
                                  shown_error >>
             [] m.kind = "failed" ->
                  /\ progress_dialog' = "destroyed"
                  /\ shown_error' = "Export Failed"
                  /\ UNCHANGED << export_cancel_requested, proc_state, proc_ret,
                                  progress_view, post_export_open >>
    /\ UNCHANGED << ffmpeg_process, worker_pc, ui_pc, monitor_pc, start_time,
                    end_time, lines_read, raw_line, wall, workerLocals, posted,
                    cancelled_while_running >>

\* update_system_metrics, line 2075: the first read of the handle
MonitorTest ==
    /\ monitor_pc = "test"
    /\ monitor_pc' = IF ffmpeg_process = NoProcess THEN "done" ELSE "poll"
    /\ UNCHANGED << export_cancel_requested, ffmpeg_process, proc_state, proc_ret,
                    worker_pc, ui_pc, start_time, end_time, lines_read, raw_line, wall,
                    workerLocals, ui_queue, progress_dialog, progress_view,
                    post_export_open, posted, cancelled_while_running >>

\* a sampler that does not look at the cancel flag
MonitorPollNoCancel ==
    /\ monitor_pc = "poll"
    /\ monitor_pc' = IF ffmpeg_process = NoProcess THEN "crashed"
                     ELSE IF proc_state # "running" THEN "done"
                     ELSE "test"
    /\ UNCHANGED << export_cancel_requested, ffmpeg_process, proc_state, proc_ret,
                    worker_pc, ui_pc, start_time, end_time, lines_read, raw_line, wall,
                    workerLocals, ui_queue, progress_dialog, progress_view,
                    post_export_open, posted, cancelled_while_running >>
\* update_system_metrics, lines 2075-2105: the second read of the handle
\* (poll() on None raises and ends the thread), the cancel check, and one
\* round of sampling
MonitorPoll ==
    /\ monitor_pc = "poll"
    /\ monitor_pc' = IF ffmpeg_process = NoProcess THEN "crashed"
                     ELSE IF proc_state # "running" THEN "done"
                     ELSE IF export_cancel_requested THEN "done"
                     ELSE "test"
    /\ UNCHANGED << export_cancel_requested, ffmpeg_process, proc_state, proc_ret,
                    worker_pc, ui_pc, start_time, end_time, lines_read, raw_line, wall,
                    workerLocals, ui_queue, progress_dialog, progress_view,
                    post_export_open, posted, cancelled_while_running >>

\* the lines ffmpeg writes: one without a time, and progress lines
TimeLine(ms) == [ has_time |-> TRUE, rest |-> seconds_to_hmsms(ms) \o << " " >> ]
FfmpegLines ==
    { [ has_time |-> FALSE, rest |-> << >> ],
      TimeLine(10000), TimeLine(3000), TimeLine(20000), TimeLine(50),
      [ has_time |-> TRUE, rest |-> SubSeq(seconds_to_hmsms(4800), 1, 11) ] }

StartJob ==
    /\ worker_pc \in { "idle", "done" }
    /\ progress_dialog # "open"
    /\ \E tr \in ExportTrims : _start_ffmpeg_thread(tr[1], tr[2], TRUE)
Spawn == \E outcome \in { "started", "FileNotFoundError", "PermissionError" } :
            Popen(outcome)
NextLine == \E line \in FfmpegLines, dt \in WallSteps : ReadLine(line, dt)
ProcessEnds == \E code \in ExitCodes : ProcExit(code)

\* ================================================================
\*        EmendoApp.on_export / _do_export: the export form
\* ================================================================
\* An argument of a command line is a text; Texts turns words into arguments.
Texts(words) == [ i \in 1..Len(words) |-> << words[i] >> ]

\* src/constants.py
CODEC_CONFIGS ==
    [ i \in 0..4 |->
        CASE i = 0 -> [ encoder |-> "", args |-> Texts(<< "-c", "copy" >>) ]
          [] i = 1 -> [ encoder |-> "libx264",
                        args |-> Texts(<< "-c:v", "libx264", "-crf", "20",
                                          "-preset", "medium" >>) ]
          [] i = 2 -> [ encoder |-> "libx265",
                        args |-> Texts(<< "-c:v", "libx265", "-crf", "22",
                                          "-preset", "medium" >>) ]
          [] i = 3 -> [ encoder |-> "libsvtav1",
                        args |-> Texts(<< "-c:v", "libsvtav1", "-preset", "2" >>) ]
          [] i = 4 -> [ encoder |-> "libx264",
                        args |-> Texts(<< "-c:v", "libx264", "-pix_fmt", "yuv420p",
                                          "-crf", "20", "-preset", "slow",
                                          "-profile:v", "high" >>) ] ]

AUDIO_CONFIGS ==
    [ i \in 0..8 |->
        CASE i = 0 -> [ args |-> Texts(<< "-c:a", "aac", "-b:a", "192k" >>) ]
          [] i = 1 -> [ args |-> Texts(<< "-c:a", "aac", "-b:a", "128k" >>) ]
          [] i = 2 -> [ args |-> Texts(<< "-c:a", "libmp3lame", "-b:a", "320k" >>) ]
          [] i = 3 -> [ args |-> Texts(<< "-c:a", "libmp3lame", "-b:a", "256k" >>) ]
          [] i = 4 -> [ args |-> Texts(<< "-c:a", "libmp3lame", "-b:a", "128k" >>) ]
          [] i = 5 -> [ args |-> Texts(<< "-c:a", "libopus", "-b:a", "128k" >>) ]
          [] i = 6 -> [ args |-> Texts(<< "-c:a", "libopus", "-b:a", "96k" >>) ]
          [] i = 7 -> [ args |-> Texts(<< "-c:a", "libvorbis", "-b:a", "192k" >>) ]
          [] i = 8 -> [ args |-> Texts(<< "-c:a", "flac", "-compression_level", "8" >>) ] ]

AUDIO_CONTAINER_COMPAT == [ i \in 0..8 |-> IF i <= 4 THEN { 0, 1, 2 } ELSE { 1 } ]
CONTAINER_EXTS == [ i \in 0..2 |-> CASE i = 0 -> "mp4" [] i = 1 -> "mkv" [] i = 2 -> "avi" ]
CONTAINER_NAMES == [ i \in 0..2 |-> CASE i = 0 -> "MP4" [] i = 1 -> "MKV" [] i = 2 -> "AVI" ]

\* float(s) on the alphabet of the model, in thousandths: digits with at
\* most one "." and at least one digit; decimals after the third are cut
PyFloatMilli(s) ==
    LET t == Strip(s)
        dot == Find(t, ".", 1)
        ip == IF dot = 0 THEN t ELSE SubSeq(t, 1, dot - 1)
        fp == IF dot = 0 THEN << >> ELSE SubSeq(t, dot + 1, Len(t))
    IN  IF \/ ip = << >> /\ fp = << >>
           \/ DigitsValue(ip, 0) = ParseError
           \/ DigitsValue(fp, 0) = ParseError
        THEN ParseError
        ELSE DigitsValue(ip, 0) * 1000
             + DigitsValue(SubSeq(fp \o << "0", "0", "0" >>, 1, 3), 0)

\* EmendoApp._parse_output_transform_settings on the three entry texts:
\* the message of the ValueError ("" when none is raised) and the values
ParseTransform(fps_t, width_t, height_t) ==
    LET f == Strip(fps_t)
        w == Strip(width_t)
        h == Strip(height_t)
        fps_error ==
            IF f = << >> THEN ""
            ELSE IF PyFloatMilli(f) = ParseError THEN "Output FPS must be a number."
            ELSE IF PyFloatMilli(f) <= 0 THEN "Output FPS must be greater than zero."
            ELSE ""
        size_error ==
            IF w = << >> /\ h = << >> THEN ""
            ELSE IF w = << >> \/ h = << >>
                 THEN "Set both width and height, or leave both empty."
            ELSE IF PyInt(w) = ParseError \/ PyInt(h) = ParseError
                 THEN "Output width/height must be integers."
            ELSE IF PyInt(w) <= 0 \/ PyInt(h) <= 0
                 THEN "Output width/height must be greater than zero."
            ELSE ""
    IN  [ error |-> IF fps_error # "" THEN fps_error ELSE size_error,
          target_fps |-> IF f = << >> THEN NoSize ELSE PyFloatMilli(f),
          target_width |-> IF w = << >> \/ h = << >> THEN NoSize ELSE PyInt(w),
          target_height |-> IF w = << >> \/ h = << >> THEN NoSize ELSE PyInt(h) ]

\* the containers allowed for an audio preset (line 1669)
AllowedContainers(audio_choice) ==
    IF audio_choice \in DOMAIN AUDIO_CONTAINER_COMPAT
    THEN AUDIO_CONTAINER_COMPAT[audio_choice]
    ELSE DOMAIN CONTAINER_NAMES

\* the names of the containers of a set, in the order of their indices
RECURSIVE SortedNames(_)
SortedNames(allowed) ==
    IF allowed \cap DOMAIN CONTAINER_NAMES = { } THEN << >>
    ELSE LET i == CHOOSE j \in allowed \cap DOMAIN CONTAINER_NAMES :
                      \A k \in allowed \cap DOMAIN CONTAINER_NAMES : j <= k
         IN  << CONTAINER_NAMES[i] >> \o SortedNames(allowed \ { i })

\* the names listed by the error of _validate_audio_container_compatibility
AllowedNames(audio_choice) ==
    IF SortedNames(AllowedContainers(audio_choice)) = << >> THEN << "None" >>
    ELSE SortedNames(AllowedContainers(audio_choice))

\* a check that accepts every container
AnyContainerCompatible(audio_choice, container_choice) == TRUE

\* EmendoApp._validate_audio_container_compatibility: its return value
_validate_audio_container_compatibility(audio_choice, container_choice) ==
    container_choice \in AllowedContainers(audio_choice)

\* EmendoApp._audio_encoder_from_args; << >> for None
RECURSIVE EncoderFrom(_, _)
EncoderFrom(args, i) ==
    IF i > Len(args) - 1 THEN << >>
    ELSE IF args[i] = << "-c:a" >> THEN args[i + 1]
    ELSE EncoderFrom(args, i + 1)

_audio_encoder_from_args(args) == EncoderFrom(args, 1)

\* f"{seconds:.3f}" of a time in ms
SecondsText(ms) == NatDigits(ms \div 1000) \o << "." >> \o ZeroPad(ms % 1000, 3)

\* f"{fps:g}" of a rate in thousandths (below a million)
GText(milli) ==
    LET whole == NatDigits(milli \div 1000)
        frac == milli % 1000
    IN  IF frac = 0 THEN whole
        ELSE IF frac % 100 = 0 THEN whole \o << "." >> \o NatDigits(frac \div 100)
        ELSE IF frac % 10 = 0 THEN whole \o << "." >> \o ZeroPad(frac \div 10, 2)
        ELSE whole \o << "." >> \o ZeroPad(frac, 3)

\* the filters of _do_export (lines 1813-1833) joined by ","; << >> for None
VideoFilter(crop, target_fps, target_width, target_height) ==
    Join( (IF crop = NoRect THEN << >>
           ELSE << << "crop=" >> \o NatDigits(crop[3]) \o << ":" >>
                   \o NatDigits(crop[4]) \o << ":" >> \o NatDigits(crop[1])
                   \o << ":" >> \o NatDigits(crop[2]) >>)
          \o (IF target_fps = NoSize THEN << >>
              ELSE << << "fps=" >> \o GText(target_fps) >>)
          \o (IF target_width = NoSize \/ target_height = NoSize THEN << >>
              ELSE << << "scale=" >> \o NatDigits(target_width) \o << ":" >>
                      \o NatDigits(target_height) >>),
          "," )

\* media_services._tool_cmd
_tool_cmd(tool, in_flatpak) ==
    IF in_flatpak THEN Texts(<< "flatpak-spawn", "--host", tool >>)
    ELSE Texts(<< tool >>)

\* an audio check that does not know the blanket stream copy
HasAudioSettingNoBlanketCopy(codec_args) ==
    \E i \in 1..Len(codec_args) :
       codec_args[i] = << "-c:a" >> \/ codec_args[i] = << "-an" >>

\* has_audio_setting of media_services.build_ffmpeg_command (lines 126-131)
HasAudioSetting(codec_args) ==
    \/ \E i \in 1..Len(codec_args) :
          codec_args[i] = << "-c:a" >> \/ codec_args[i] = << "-an" >>
    \/ \E i \in 1..(Len(codec_args) - 1) :
          codec_args[i] = << "-c" >> /\ codec_args[i + 1] = << "copy" >>

\* a command that seeks on the output side
BuildCommandOutputSeek(in_flatpak, path, s, e, codec_args, crop_filter, output_path) ==
    _tool_cmd("ffmpeg", in_flatpak)
    \o << << "-y" >>, << "-i" >>, << path >>, << "-ss" >>, SecondsText(s),
          << "-to" >>, SecondsText(e) >>
    \o (IF crop_filter # << >> THEN << << "-vf" >>, crop_filter >> ELSE << >>)
    \o codec_args
    \o (IF HasAudioSetting(codec_args) THEN << >> ELSE Texts(<< "-c:a", "copy" >>))
    \o << output_path >>

\* media_services.build_ffmpeg_command; start and end in ms
build_ffmpeg_command(in_flatpak, path, s, e, codec_args, crop_filter, output_path) ==
    _tool_cmd("ffmpeg", in_flatpak)
    \o << << "-y" >>, << "-ss" >>, SecondsText(s), << "-to" >>, SecondsText(e),
          << "-i" >>, << path >> >>
    \o (IF crop_filter # << >> THEN << << "-vf" >>, crop_filter >> ELSE << >>)
    \o codec_args
    \o (IF HasAudioSetting(codec_args) THEN << >> ELSE Texts(<< "-c:a", "copy" >>))
    \o << output_path >>

VARIABLES
    fps_entry, width_entry, height_entry,       \* the texts of the three entries
    codec_combo, audio_combo, container_combo,  \* the selected row of each combo
    _codec_availability,          \* index -> "absent", "True", "False", "None"
    _audio_codec_availability,
    create_dir_dialog,            \* the arguments bound to the "Create?" dialog
    export_outcome,               \* how the last export attempt ended
    error_names,                  \* the containers listed by the last error
    cmd,                          \* the last command handed to the worker
    codec_checks                  \* the threads of _validate_codec_async and
                                  \* _validate_audio_codec_async that still run

formVars == << fps_entry, width_entry, height_entry, codec_combo, audio_combo,
               container_combo, _codec_availability, _audio_codec_availability,
               create_dir_dialog, export_outcome, error_names, cmd, codec_checks >>

NoDialog == << >>

\* do_activate: empty entries, the first row of each combo, empty caches
FormInit ==
    /\ fps_entry = << >>
    /\ width_entry = << >>
    /\ height_entry = << >>
    /\ codec_combo = 0
    /\ audio_combo = 0
    /\ container_combo = 0
    /\ _codec_availability = [ i \in DOMAIN CODEC_CONFIGS |-> "absent" ]
    /\ _audio_codec_availability = [ i \in DOMAIN AUDIO_CONFIGS |-> "absent" ]
    /\ create_dir_dialog = NoDialog
    /\ export_outcome = "none"
    /\ error_names = << >>
    /\ cmd = << >>
    /\ codec_checks = { }

\* crop_toggle.get_active(): the switch and the overlay change together
\* (on_crop_toggled, lines 1252-1254)
crop_toggle == crop_enabled

\* _parse_output_transform_settings of the three entries
_parse_output_transform_settings ==
    ParseTransform(fps_entry, width_entry, height_entry)

\* a transform test that looks at the entries only
HasTransformFieldsOnly(crop_active, target_fps, target_width, target_height) ==
    \/ target_fps # NoSize
    \/ target_width # NoSize /\ target_height # NoSize

\* has_video_transform of on_export (lines 1721-1725)
has_video_transform(crop_active, target_fps, target_width, target_height) ==
    \/ crop_active
    \/ target_fps # NoSize
    \/ target_width # NoSize /\ target_height # NoSize

\* the title of the error on_export reports before it looks at the export
\* directory (lines 1688-1737), "" when it reports none; s, e and tr are the
\* values of lines 1694, 1695 and 1712
OnExportError(s, e, tr) ==
    IF filepath = NoPath THEN "No video"
    ELSE IF s = ParseError \/ e = ParseError THEN "Invalid Time Format"
    ELSE IF e <= s THEN "Invalid times"
    ELSE IF tr.error # "" THEN "Invalid Output Settings"
    ELSE IF codec_combo = 0
            /\ has_video_transform(crop_toggle, tr.target_fps,
                                   tr.target_width, tr.target_height)
         THEN "Copy Mode Restriction"
    ELSE IF codec_combo = 0 THEN ""
    ELSE IF ~_validate_audio_container_compatibility(audio_combo, container_combo)
         THEN "Audio/Container Incompatible"
    ELSE ""

\* the crop of _do_export is taken when the switch is on and the size of the
\* video is known (line 1814)
CropTaken == crop_toggle /\ Truthy(video_width) /\ Truthy(video_height)

\* video_filter of _do_export (lines 1813-1833), << >> for None
DoExportFilter(target_fps, target_width, target_height) ==
    VideoFilter(IF CropTaken
                THEN get_crop_params(<< crop_x, crop_y, crop_w, crop_h >>,
                                     video_width, video_height, widget_w, widget_h)
                ELSE NoRect,
                target_fps, target_width, target_height)

\* the audio encoder is looked up with check_encoder_available (line 1866)
AudioProbed(codec_choice, audio_choice, video_filter) ==
    /\ ~(codec_choice = 0 /\ video_filter = << >>)
    /\ _audio_encoder_from_args(AUDIO_CONFIGS[audio_choice].args) # << >>
    /\ _audio_codec_availability[audio_choice] = "absent"

\* the title of the error _do_export reports (lines 1835-1888), "" when it
\* reports none; audio_available: the cached or probed answer
DoExportError(codec_choice, audio_choice, video_filter, audio_available) ==
    IF video_filter # << >> /\ codec_choice = 0 THEN "Copy Mode Restriction"
    ELSE IF codec_choice \notin DOMAIN CODEC_CONFIGS THEN "Invalid Codec"
    ELSE IF audio_choice \notin DOMAIN AUDIO_CONFIGS THEN "Invalid Audio Codec"
    ELSE IF /\ ~(codec_choice = 0 /\ video_filter = << >>)
            /\ _audio_encoder_from_args(AUDIO_CONFIGS[audio_choice].args) # << >>
            /\ audio_available = "False"
         THEN "Audio Codec Not Available"
    ELSE IF _codec_availability[codec_choice] = "False" THEN "Codec Not Available"
    ELSE ""

\* os.path.splitext(os.path.basename(path))[0] of the paths of the model
PathStem(path) == IF path = "a.mp4" THEN "a" ELSE "b"

\* EmendoApp._do_export; shown_before: the title of the error dialog its
\* caller showed last.  It draws the answer of check_encoder_available
\* when it asks for it, and for a job it starts whether the ffprobe run of
\* _get_codec_info raised and whether the program runs inside Flatpak.
_do_export(s, e, codec_choice, audio_choice, container_choice, export_dir, target_fps, target_width, target_height, shown_before) ==
    \E video_filter \in { DoExportFilter(target_fps, target_width, target_height) } :
    \E audio_available \in
          IF video_filter # << >> /\ codec_choice = 0
          THEN { _audio_codec_availability[audio_choice] }
          ELSE IF AudioProbed(codec_choice, audio_choice, video_filter)
          THEN ProbeResults
          ELSE { _audio_codec_availability[audio_choice] } :
    \E error \in { DoExportError(codec_choice, audio_choice, video_filter,
                                 audio_available) } :
        /\ IF CropTaken THEN CropParamsCall(video_width, video_height)
           ELSE UNCHANGED paramVars
        /\ _audio_codec_availability' =
              [ _audio_codec_availability EXCEPT ![audio_choice] = audio_available ]
        /\ error_names' = << >>
        /\ IF error # ""
           THEN /\ shown_error' = error
                /\ export_outcome' = "rejected"
                /\ UNCHANGED << cmd, exportVars >>
           ELSE \E codec_info_ok \in BOOLEAN, in_flatpak \in BOOLEAN :
                /\ cmd' = build_ffmpeg_command(in_flatpak, filepath, s, e,
                              IF codec_choice = 0 /\ video_filter = << >>
                              THEN CODEC_CONFIGS[codec_choice].args
                              ELSE CODEC_CONFIGS[codec_choice].args
                                   \o AUDIO_CONFIGS[audio_choice].args,
                              video_filter,
                              << export_dir, "/", "Emendo_", PathStem(filepath), "_",
                                 "%Y%m%d_%H%M%S", ".",
                                 IF container_choice \in DOMAIN CONTAINER_EXTS
                                 THEN CONTAINER_EXTS[container_choice] ELSE "mp4" >>)
                /\ _start_ffmpeg_thread(s, e, codec_info_ok)
                /\ export_outcome' = IF codec_info_ok THEN "started" ELSE "crashed"
                /\ shown_error' = shown_before

\* EmendoApp.on_export; it draws the answer of os.path.exists(export_dir)
on_export ==
    \E s \in { hmsms_to_seconds(start_text) }, e \in { hmsms_to_seconds(end_text) },
       tr \in { _parse_output_transform_settings } :
    \E error \in { OnExportError(s, e, tr) } :
        /\ UNCHANGED << fps_entry, width_entry, height_entry, codec_combo,
                        audio_combo, container_combo, _codec_availability,
                        codec_checks >>
        /\ IF error # ""
           THEN /\ shown_error' = error
                /\ error_names' = IF error = "Audio/Container Incompatible"
                                  THEN AllowedNames(audio_combo) ELSE << >>
                /\ export_outcome' = "rejected"
                /\ UNCHANGED << _audio_codec_availability, create_dir_dialog, cmd,
                                paramVars, exportVars >>
           ELSE \E dir_exists \in BOOLEAN :
                IF ~dir_exists
                THEN /\ create_dir_dialog' =
                           [ export_dir |-> "~/Emendo", start |-> s, end |-> e,
                             codec_choice |-> codec_combo,
                             audio_choice |-> audio_combo,
                             container_choice |-> container_combo,
                             target_fps |-> tr.target_fps,
                             target_width |-> tr.target_width,
                             target_height |-> tr.target_height ]
                     /\ export_outcome' = "asked"
                     /\ UNCHANGED << _audio_codec_availability, error_names, cmd,
                                     shown_error, paramVars, exportVars >>
                ELSE /\ _do_export(s, e, codec_combo, audio_combo, container_combo,
                                   "~/Emendo", tr.target_fps, tr.target_width,
                                   tr.target_height, shown_error)
                     /\ UNCHANGED create_dir_dialog

\* EmendoApp._on_create_dir_response; response: "YES" or "NO", makedirs_ok:
\* os.makedirs did not raise
_on_create_dir_response(response, makedirs_ok) ==
    /\ create_dir_dialog # NoDialog
    /\ create_dir_dialog' = NoDialog
    /\ UNCHANGED << fps_entry, width_entry, height_entry, codec_combo,
                    audio_combo, container_combo, _codec_availability,
                    codec_checks >>
    /\ LET a == create_dir_dialog
       IN  _do_export(a.start, a.end, a.codec_choice, a.audio_choice,
                      a.container_choice,
                      IF response = "YES" /\ makedirs_ok THEN a.export_dir ELSE "~",
                      a.target_fps, a.target_width, a.target_height,
                      IF response = "YES" /\ ~makedirs_ok THEN "Directory Error"
                      ELSE shown_error)


\* ---- the encoder checks started by the two combos

\* media_services.check_encoder_available for a run of ffmpeg: the exit
\* code is not looked at, an exception of subprocess.run is passed on
\* ("None": the callers catch it)
check_encoder_available(run) ==
    CASE run = "listed" -> "True"
      [] run \in { "not_listed", "error_exit" } -> "False"
      [] OTHER -> "None"

\* controls that switch crop mode off for copy and keep the entries
UpdateControlsKeepEntries(codec_index) ==
    /\ IF codec_index = 0 /\ crop_toggle THEN set_crop_enabled(FALSE)
       ELSE UNCHANGED cropVars
    /\ UNCHANGED << fps_entry, width_entry, height_entry >>
\* EmendoApp._update_copy_mode_controls, lines 1264-1269 (the sensitivity
\* of the widgets is not part of the state)
_update_copy_mode_controls(codec_index) ==
    /\ IF codec_index = 0 /\ crop_toggle THEN set_crop_enabled(FALSE)
       ELSE UNCHANGED cropVars
    /\ IF codec_index = 0
       THEN fps_entry' = << >> /\ width_entry' = << >> /\ height_entry' = << >>
       ELSE UNCHANGED << fps_entry, width_entry, height_entry >>

\* lines 1258-1263: the audio combo, the three entries and the crop switch
\* take input unless copy was the row handed to _update_copy_mode_controls,
\* which do_activate (line 1078) and every change of the codec combo call
ControlsSensitive == codec_combo # 0

\* EmendoApp.on_crop_toggled: the user flips the crop switch
on_crop_toggled ==
    /\ ControlsSensitive
    /\ set_crop_enabled(~crop_toggle)

\* the user edits the FPS entry, or the width and height entries
EditFps(text) ==
    /\ ControlsSensitive
    /\ fps_entry' = text
    /\ UNCHANGED << width_entry, height_entry, codec_combo, audio_combo,
                    container_combo, _codec_availability,
                    _audio_codec_availability, create_dir_dialog, export_outcome,
                    error_names, cmd, codec_checks >>

EditSize(width_text, height_text) ==
    /\ ControlsSensitive
    /\ width_entry' = width_text
    /\ height_entry' = height_text
    /\ UNCHANGED << fps_entry, codec_combo, audio_combo,
                    container_combo, _codec_availability,
                    _audio_codec_availability, create_dir_dialog, export_outcome,
                    error_names, cmd, codec_checks >>

\* EmendoApp._validate_codec_async and _validate_audio_codec_async, lines
\* 1307-1308 and 1331-1332: the thread is started; run is how its run of
\* ffmpeg is going to end
StartCheck(audio, index, run) ==
    codec_checks' = codec_checks \cup
        { [ audio |-> audio, index |-> index, run |-> run, pc |-> "run" ] }

\* EmendoApp.on_codec_selected: another row of the codec combo is selected
on_codec_selected(selected, run) ==
    /\ selected # codec_combo
    /\ Cardinality(codec_checks) < MaxChecks
    /\ codec_combo' = selected
    /\ _update_copy_mode_controls(selected)
    /\ IF selected \in DOMAIN CODEC_CONFIGS /\ CODEC_CONFIGS[selected].encoder # ""
       THEN StartCheck(FALSE, selected, run)
       ELSE UNCHANGED codec_checks
    /\ UNCHANGED << audio_combo, container_combo, _codec_availability,
                    _audio_codec_availability, create_dir_dialog, export_outcome,
                    error_names, cmd >>

\* EmendoApp.on_audio_selected: another row of the audio combo is selected
on_audio_selected(selected, run) ==
    /\ selected # audio_combo
    /\ Cardinality(codec_checks) < MaxChecks
    /\ audio_combo' = selected
    /\ IF /\ selected \in DOMAIN AUDIO_CONFIGS
          /\ _audio_encoder_from_args(AUDIO_CONFIGS[selected].args) # << >>
       THEN StartCheck(TRUE, selected, run)
       ELSE UNCHANGED codec_checks
    /\ UNCHANGED << fps_entry, width_entry, height_entry, codec_combo,
                    container_combo, _codec_availability,
                    _audio_codec_availability, create_dir_dialog, export_outcome,
                    error_names, cmd >>

\* check_codec and check_audio_codec, lines 1298-1305 and 1322-1329: the
\* answer is stored, None when the check raised, and a warning is handed
\* to the main loop for the answer False
check_codec(thread) ==
    /\ thread \in codec_checks
    /\ thread.pc = "run"
    /\ LET available == check_encoder_available(thread.run)
       IN  /\ IF thread.audio
              THEN /\ _audio_codec_availability' =
                         [ _audio_codec_availability EXCEPT ![thread.index] = available ]
                   /\ UNCHANGED _codec_availability
              ELSE /\ _codec_availability' =
                         [ _codec_availability EXCEPT ![thread.index] = available ]
                   /\ UNCHANGED _audio_codec_availability
           /\ codec_checks' =
                 (codec_checks \ { thread })
                 \cup (IF available = "False"
                       THEN { [ thread EXCEPT !.pc = "warn" ] } ELSE { })
    /\ UNCHANGED << fps_entry, width_entry, height_entry, codec_combo, audio_combo,
                    container_combo, create_dir_dialog, export_outcome,
                    error_names, cmd >>

\* EmendoApp._show_codec_warning and _show_audio_codec_warning: the warning
\* is shown when the row is still the selected one
_show_codec_warning(thread) ==
    /\ thread \in codec_checks
    /\ thread.pc = "warn"
    /\ codec_checks' = codec_checks \ { thread }
    /\ shown_error' =
          IF thread.audio
          THEN IF thread.index = audio_combo THEN "Audio Codec Not Available"
               ELSE shown_error
          ELSE IF thread.index = codec_combo THEN "Codec Not Available"
               ELSE shown_error
    /\ UNCHANGED << fps_entry, width_entry, height_entry, codec_combo, audio_combo,
                    container_combo, _codec_availability,
                    _audio_codec_availability, create_dir_dialog, export_outcome,
                    error_names, cmd >>

\* ================================================================
\*                  functions called on their own
\* ================================================================

VARIABLES
    args,        \* the arguments of the function under study
    returned     \* what it has returned so far

callVars == << args, returned >>

NoArgs == [ fn |-> "none" ]
NoReturn == << >>

\* no function is under study
CallInit == args = NoArgs /\ returned = NoReturn

\* build_ffmpeg_command is called with the arguments drawn
BuildCommand ==
    /\ args.fn = "build_ffmpeg_command"
    /\ returned = NoReturn
    /\ returned' = build_ffmpeg_command(args.in_flatpak, args.filepath, args.start,
                                        args.end, args.codec_args, args.crop_filter,
                                        args.output_path)
    /\ UNCHANGED args

\* seconds_to_hmsms formats the time drawn
FormatTime ==
    /\ args.fn = "seconds_to_hmsms"
    /\ returned = NoReturn
    /\ returned' = << seconds_to_hmsms(args.seconds) >>
    /\ UNCHANGED args

\* hmsms_to_seconds parses the text that seconds_to_hmsms returned
ParseTime ==
    /\ args.fn = "seconds_to_hmsms"
    /\ Len(returned) = 1
    /\ returned' = << returned[1], hmsms_to_seconds(returned[1]) >>
    /\ UNCHANGED args

\* hmsms_to_seconds parses the text drawn
ParseText ==
    /\ args.fn = "hmsms_to_seconds"
    /\ returned = NoReturn
    /\ returned' = << hmsms_to_seconds(args.text) >>
    /\ UNCHANGED args
\*                          specifications
\* ================================================================

vars == << cropVars, paramVars, metaVars, exportVars, formVars, callVars >>

\* The gestures on a mapped overlay whose allocation and video size are
\* fixed: every handle, overshooting and moderate deltas.
CropGestureInit ==
    /\ \E ws \in GestureWidgetSizes, vs \in VideoSizes \cup { <<NoSize, NoSize>> } :
          CropFields(ws, vs, TRUE)
    /\ ParamsInit
    /\ MetaInit
    /\ ExportInit
    /\ FormInit
    /\ CallInit

CropNext ==
    \/ CropToggle /\ UNCHANGED << paramVars, metaVars, exportVars, formVars, callVars >>
    \/ DragBegin /\ UNCHANGED << paramVars, metaVars, exportVars, formVars, callVars >>
    \/ DragUpdate /\ UNCHANGED << paramVars, metaVars, exportVars, formVars, callVars >>
    \/ on_drag_end /\ UNCHANGED << paramVars, metaVars, exportVars, formVars, callVars >>

SpecCrop == CropGestureInit /\ [][CropNext]_vars

\* The overlay from construction on, with allocation, mapping, video size
\* and the clock changing between the gesture events.
OverlayDragBegin == \E p \in OverlayPointers : on_drag_begin(p[1], p[2])
OverlayDragUpdate == \E d \in OverlayDeltas : on_drag_update(d[1], d[2])

OverlayInit ==
    CropInit /\ ParamsInit /\ MetaInit /\ ExportInit /\ FormInit /\ CallInit

OverlayNext ==
    \/ CropToggle /\ UNCHANGED << paramVars, metaVars, exportVars, formVars, callVars >>
    \/ VideoSized /\ UNCHANGED << paramVars, metaVars, exportVars, formVars, callVars >>
    \/ do_map /\ UNCHANGED << paramVars, metaVars, exportVars, formVars, callVars >>
    \/ do_unmap /\ UNCHANGED << paramVars, metaVars, exportVars, formVars, callVars >>
    \/ Allocate /\ UNCHANGED << paramVars, metaVars, exportVars, formVars, callVars >>
    \/ OverlayDragBegin /\ UNCHANGED << paramVars, metaVars, exportVars, formVars, callVars >>
    \/ OverlayDragUpdate /\ UNCHANGED << paramVars, metaVars, exportVars, formVars, callVars >>
    \/ on_drag_end /\ UNCHANGED << paramVars, metaVars, exportVars, formVars, callVars >>
    \/ Pause /\ UNCHANGED << paramVars, metaVars, exportVars, formVars, callVars >>

SpecOverlay == OverlayInit /\ [][OverlayNext]_vars

\* ---- drag updates at any time: the handler is called with and without a
\* gesture, on an overlay that is allocated, mapped, enabled and sized in
\* any order
AnyDragUpdate == \E d \in OverlayDeltas : DragUpdateCall(d[1], d[2])

UpdatesNext ==
    \/ CropToggle /\ UNCHANGED << paramVars, metaVars, exportVars, formVars, callVars >>
    \/ VideoSized /\ UNCHANGED << paramVars, metaVars, exportVars, formVars, callVars >>
    \/ do_map /\ UNCHANGED << paramVars, metaVars, exportVars, formVars, callVars >>
    \/ Allocate /\ UNCHANGED << paramVars, metaVars, exportVars, formVars, callVars >>
    \/ OverlayDragBegin /\ UNCHANGED << paramVars, metaVars, exportVars, formVars, callVars >>
    \/ AnyDragUpdate /\ UNCHANGED << paramVars, metaVars, exportVars, formVars, callVars >>
    \/ on_drag_end /\ UNCHANGED << paramVars, metaVars, exportVars, formVars, callVars >>

SpecUpdates == OverlayInit /\ [][UpdatesNext]_vars

\* ---- the redraw throttle: an enabled overlay on a mapped widget, with the
\* clock advancing by exactly the throttle and by more between the events
RedrawSteps == { 1, 2 }
RedrawClock == 5                  \* the clock of these runs stops here
RedrawVideoSizes == { <<200, 100>>, <<100, 200>> }
RedrawDeltas == { <<10, 5>>, <<0 - 20, 10>> }
VideoResized == \E s \in RedrawVideoSizes :
                    /\ s # << overlay_video_width, overlay_video_height >>
                    /\ set_video_size(s[1], s[2])
RedrawDragUpdate == \E d \in RedrawDeltas : on_drag_update(d[1], d[2])
RedrawDragBegin == on_drag_begin(50, 50)
ShortPause == \E d \in RedrawSteps : now + d <= RedrawClock /\ Tick(d)

RedrawInit ==
    /\ CropFields(<<100, 100>>, <<200, 100>>, TRUE)
    /\ ParamsInit /\ MetaInit /\ ExportInit /\ FormInit /\ CallInit

RedrawNext ==
    \/ CropToggle /\ UNCHANGED << paramVars, metaVars, exportVars, formVars, callVars >>
    \/ VideoResized /\ UNCHANGED << paramVars, metaVars, exportVars, formVars, callVars >>
    \/ RedrawDragBegin /\ UNCHANGED << paramVars, metaVars, exportVars, formVars, callVars >>
    \/ RedrawDragUpdate /\ UNCHANGED << paramVars, metaVars, exportVars, formVars, callVars >>
    \/ on_drag_end /\ UNCHANGED << paramVars, metaVars, exportVars, formVars, callVars >>
    \/ ShortPause /\ UNCHANGED << paramVars, metaVars, exportVars, formVars, callVars >>

SpecRedraw == RedrawInit /\ [][RedrawNext]_vars
\* get_crop_params on the rectangles that gestures leave behind: the overlay
\* is dragged, allocated or not, and asked for the pixel crop of a video.
ParamsOverlayInit == 
    CropFields(<< 100, 100 >>, << NoSize, NoSize >>, TRUE) /\ ParamsInit /\ MetaInit
    /\ ExportInit /\ FormInit /\ CallInit

ParamsCall == \E vs \in ParamVideoSizes : CropParamsCall(vs[1], vs[2])

ParamsNext ==
    \/ CropToggle /\ UNCHANGED << paramVars, metaVars, exportVars, formVars, callVars >>
    \/ Allocate /\ UNCHANGED << paramVars, metaVars, exportVars, formVars, callVars >>
    \/ OverlayDragBegin /\ UNCHANGED << paramVars, metaVars, exportVars, formVars, callVars >>
    \/ OverlayDragUpdate /\ UNCHANGED << paramVars, metaVars, exportVars, formVars, callVars >>
    \/ on_drag_end /\ UNCHANGED << paramVars, metaVars, exportVars, formVars, callVars >>
    \/ ParamsCall /\ UNCHANGED << cropVars, metaVars, exportVars, formVars, callVars >>

SpecParams == ParamsOverlayInit /\ [][ParamsNext]_vars

\* Opening files while earlier metadata probes are still running or their
\* callbacks still wait for the main loop.
MetaNext ==
    \/ OpenFile /\ UNCHANGED << cropVars, paramVars, exportVars, formVars, callVars >>
    \/ ProbeEnds /\ UNCHANGED << cropVars, paramVars, exportVars, formVars, callVars >>
    \/ MetaDispatch /\ UNCHANGED << paramVars, exportVars, formVars, callVars >>

SpecMeta == OverlayInit /\ [][MetaNext]_vars

\* Export jobs: the worker thread, the external process, the sampler, the
\* Cancel button and the main loop, in any interleaving.
ExportNext ==
    \/ StartJob /\ UNCHANGED << cropVars, paramVars, metaVars, formVars, callVars >>
    \/ Spawn /\ UNCHANGED << cropVars, paramVars, metaVars, formVars, callVars >>
    \/ StoreHandle /\ UNCHANGED << cropVars, paramVars, metaVars, formVars, callVars >>
    \/ NextLine /\ UNCHANGED << cropVars, paramVars, metaVars, formVars, callVars >>
    \/ ReadEOF /\ UNCHANGED << cropVars, paramVars, metaVars, formVars, callVars >>
    \/ ReadError /\ UNCHANGED << cropVars, paramVars, metaVars, formVars, callVars >>
    \/ WaitExit /\ UNCHANGED << cropVars, paramVars, metaVars, formVars, callVars >>
    \/ ProcessEnds /\ UNCHANGED << cropVars, paramVars, metaVars, formVars, callVars >>
    \/ CancelRequested /\ UNCHANGED << cropVars, paramVars, metaVars, formVars, callVars >>
    \/ CancelKill /\ UNCHANGED << cropVars, paramVars, metaVars, formVars, callVars >>
    \/ Dispatch /\ UNCHANGED << cropVars, paramVars, metaRest, formVars, callVars >>
    \/ MonitorTest /\ UNCHANGED << cropVars, paramVars, metaVars, formVars, callVars >>
    \/ MonitorPoll /\ UNCHANGED << cropVars, paramVars, metaVars, formVars, callVars >>

SpecExport == OverlayInit /\ [][ExportNext]_vars

\* ---- the frames of the overlay
\* The runs of the redraw throttle, with the frames GTK paints: a frame
\* follows every queued redraw, since the frame clock runs while a redraw is
\* pending. Nothing makes the pointer, the clock or the video size move.
PaintStep ==
    do_snapshot /\ UNCHANGED << paramVars, metaVars, exportVars, formVars, callVars >>

PaintNext == RedrawNext \/ PaintStep

FairRedraw == RedrawInit /\ [][PaintNext]_vars /\ WF_vars(PaintStep)
\* ---- export jobs under fair scheduling
\* The worker thread, the main loop and the sampler thread each get to run:
\* a thread that can take a step eventually takes one. The worker's step in
\* the reading loop is the next line of ffmpeg, which writes its statistics
\* while it runs, or the end of the pipe. Nothing makes ffmpeg end by
\* itself, a read fail, or the user press a button. One trim and two lines,
\* read outside the progress throttle, are enough for these jobs.
FairStart ==
    /\ worker_pc \in { "idle", "done" }
    /\ progress_dialog # "open"
    /\ _start_ffmpeg_thread(0, 10000, TRUE)
FairLine == \E line \in { [ has_time |-> FALSE, rest |-> << >> ], TimeLine(10000) } :
               ReadLine(line, 3)
WorkerStep ==
    (Spawn \/ StoreHandle \/ FairLine \/ ReadEOF \/ WaitExit)
    /\ UNCHANGED << cropVars, paramVars, metaVars, formVars, callVars >>
MainLoopStep ==
    \/ CancelKill /\ UNCHANGED << cropVars, paramVars, metaVars, formVars, callVars >>
    \/ Dispatch /\ UNCHANGED << cropVars, paramVars, metaRest, formVars, callVars >>
SamplerStep ==
    (MonitorTest \/ MonitorPoll)
    /\ UNCHANGED << cropVars, paramVars, metaVars, formVars, callVars >>

FairNext ==
    \/ FairStart /\ UNCHANGED << cropVars, paramVars, metaVars, formVars, callVars >>
    \/ WorkerStep
    \/ ReadError /\ UNCHANGED << cropVars, paramVars, metaVars, formVars, callVars >>
    \/ ProcessEnds /\ UNCHANGED << cropVars, paramVars, metaVars, formVars, callVars >>
    \/ CancelRequested /\ UNCHANGED << cropVars, paramVars, metaVars, formVars, callVars >>
    \/ MainLoopStep
    \/ SamplerStep

FairExport ==
    /\ OverlayInit /\ [][FairNext]_vars
    /\ WF_vars(WorkerStep) /\ WF_vars(MainLoopStep) /\ WF_vars(SamplerStep)

\* ---- the window of speed samples: one long job whose progress rises with
\* every line, at two rates, until the window has been full for two lines
WindowLines == 12
WindowLine == \E dt \in { 3, 4 } :
                  /\ lines_read < WindowLines
                  /\ LoopLine(TimeLine(700 * (lines_read + 1)), dt)

WindowNext ==
    \/ FairStart /\ UNCHANGED << cropVars, paramVars, metaVars, formVars, callVars >>
    \/ Spawn /\ UNCHANGED << cropVars, paramVars, metaVars, formVars, callVars >>
    \/ StoreHandle /\ UNCHANGED << cropVars, paramVars, metaVars, formVars, callVars >>
    \/ WindowLine /\ UNCHANGED << cropVars, paramVars, metaVars, formVars, callVars >>

SpecWindow == OverlayInit /\ [][WindowNext]_vars

\* ---- the export form: one export attempt from each state of the form
\* The contents of the form are inputs of on_export: it reads them from the
\* widgets whatever made them so, and its checks are written for all of them.
StartTexts == { << >>, << "0" >>, << "0", ".", "0", "0", "0", "x" >>,
                << "1", ":", "3", "0" >> }
EndTexts == { << "9", "0" >>, seconds_to_hmsms(90500), << "1", ":", "x" >> }
FpsTexts == { << >>, << "3", "0" >>, << "x" >> }
SizeTexts == { << << >>, << >> >>,
               << << "6", "4", "0" >>, << "3", "6", "0" >> >>,
               << << "6", "4", "0" >>, << >> >>,
               << << "x" >>, << "3", "6", "0" >> >> }
CodecChoices == { 0, 1 }
AudioChoices == { 0, 5 }
ContainerChoices == { 0, 1 }
CachedAvailability == { "absent", "False" }

\* the probe of the opened file that is still running, and the one that ended
PendingProbe == [ path |-> "a.mp4", request_id |-> 1 ]
LoadedResult == [ kind |-> "loaded", duration |-> 10000, width |-> 200,
                  height |-> 100, fps |-> 30000 ]

\* no file was opened
NoFileOpened ==
    /\ filepath = NoPath
    /\ metadata_request_id = 0
    /\ probes = { }
    /\ duration = NoTime
    /\ video_width = NoSize
    /\ video_height = NoSize
    /\ video_fps = DEFAULT_FPS
    /\ loading = FALSE
    /\ meta_last = NoMessage
    /\ overlay_video_width = NoSize
    /\ overlay_video_height = NoSize

\* a file was opened and its probe is still running
FileOpened ==
    /\ filepath = "a.mp4"
    /\ metadata_request_id = 1
    /\ probes = { PendingProbe }
    /\ duration = NoTime
    /\ video_width = NoSize
    /\ video_height = NoSize
    /\ video_fps = DEFAULT_FPS
    /\ loading = TRUE
    /\ meta_last = NoMessage
    /\ overlay_video_width = NoSize
    /\ overlay_video_height = NoSize

\* a file was opened and _on_metadata_loaded has set its metadata
FileLoaded ==
    /\ filepath = "a.mp4"
    /\ metadata_request_id = 1
    /\ probes = { }
    /\ duration = LoadedResult.duration
    /\ video_width = LoadedResult.width
    /\ video_height = LoadedResult.height
    /\ video_fps = LoadedResult.fps
    /\ loading = FALSE
    /\ meta_last = [ path |-> "a.mp4", request_id |-> 1, result |-> LoadedResult ]
    /\ overlay_video_width = LoadedResult.width
    /\ overlay_video_height = LoadedResult.height

\* an earlier job was cancelled and then failed reading the output of the
\* process: the flag is still set and the handle still stored
EarlierJobFailed ==
    /\ export_cancel_requested = TRUE
    /\ ffmpeg_process = TheProcess
    /\ proc_state = "exited"
    /\ proc_ret = KilledCode
    /\ worker_pc = "done"
    /\ ui_pc = "idle"
    /\ monitor_pc = "done"
    /\ start_time = 0
    /\ end_time = 10000
    /\ lines_read = 0
    /\ raw_line = NoLine
    /\ wall = WallStart
    /\ last_update_time = 0
    /\ last_progress = 0
    /\ last_progress_time = WallStart
    /\ progress_samples = << >>
    /\ avg_speed = << 0, 1 >>
    /\ prog = NoProg
    /\ t_seconds = NoTime
    /\ ui_queue = << >>
    /\ progress_dialog = "destroyed"
    /\ progress_view = InitialView
    /\ post_export_open = FALSE
    /\ posted = << "failed" >>
    /\ cancelled_while_running = TRUE
    /\ shown_error = "Export Failed"

FormInputsInit ==
    /\ crop_enabled = FALSE
    /\ crop_x = CROP_DEFAULT_X
    /\ crop_y = CROP_DEFAULT_Y
    /\ crop_w = CROP_DEFAULT_W
    /\ crop_h = CROP_DEFAULT_H
    /\ dragging = NoHandle
    /\ drag_start_x = 0
    /\ drag_start_y = 0
    /\ drag_start_crop = NoRect
    /\ cached_rect = NoRect
    /\ last_rect_calc = 0
    /\ last_crop_draw = 0
    /\ is_visible = TRUE
    /\ widget_w = 100
    /\ widget_h = 100
    /\ gesture_active = FALSE
    /\ now = 0
    /\ draw_pending = FALSE
    /\ painted_crop = NoRect
    /\ ParamsInit
    /\ meta_queue = << >>
    /\ \/ NoFileOpened /\ ExportInit /\ shown_error = NoError
       \/ (FileOpened \/ FileLoaded)
          /\ ((ExportInit /\ shown_error = NoError) \/ EarlierJobFailed)
    /\ start_text \in StartTexts
    /\ end_text \in EndTexts
    /\ fps_entry \in FpsTexts
    /\ \E size \in SizeTexts : width_entry = size[1] /\ height_entry = size[2]
    /\ codec_combo \in CodecChoices
    /\ audio_combo \in AudioChoices
    /\ container_combo \in ContainerChoices
    /\ \E known \in CachedAvailability :
          _codec_availability =
             [ i \in DOMAIN CODEC_CONFIGS |-> IF i = 1 THEN known ELSE "absent" ]
    /\ \E known \in CachedAvailability :
          _audio_codec_availability =
             [ i \in DOMAIN AUDIO_CONFIGS |-> IF i = audio_combo THEN known
                                               ELSE "absent" ]
    /\ create_dir_dialog = NoDialog
    /\ export_outcome = "none"
    /\ error_names = << >>
    /\ cmd = << >>
    /\ codec_checks = { }
    /\ CallInit

\* the switch is an input of on_export (line 1722) and again of _do_export
\* (line 1812)
FormCropToggle == export_outcome \in { "none", "asked" } /\ CropToggle

\* one attempt in each behaviour
Export == export_outcome = "none" /\ on_export

CreateDirResponse ==
    \E response \in { "YES", "NO" }, makedirs_ok \in BOOLEAN :
       _on_create_dir_response(response, makedirs_ok)

FormNext ==
    \/ FormCropToggle /\ UNCHANGED << paramVars, metaVars, exportVars, formVars, callVars >>
    \/ Export /\ UNCHANGED << cropVars, metaRest, callVars >>
    \/ CreateDirResponse /\ UNCHANGED << cropVars, metaRest, callVars >>

SpecForm == FormInputsInit /\ [][FormNext]_vars

\* ---- the encoder checks and the export attempt that follows them
\* A loaded file and a valid trim; rows are selected in the two combos, the
\* check threads end in every order, and one export is attempted.
EncodersInit ==
    /\ CropFields(<< 100, 100 >>, << LoadedResult.width, LoadedResult.height >>, TRUE)
    /\ ParamsInit
    /\ meta_queue = << >>
    /\ FileLoaded
    /\ ExportInit
    /\ shown_error = NoError
    /\ start_text = << "0" >>
    /\ end_text = << "9", "0" >>
    /\ FormInit
    /\ CallInit

CodecSelected ==
    \E selected \in CodecChoices, run \in ProbeRuns : on_codec_selected(selected, run)
AudioSelected ==
    \E selected \in AudioChoices, run \in ProbeRuns : on_audio_selected(selected, run)
CheckEnds == \E thread \in codec_checks : check_codec(thread)
WarningShown == \E thread \in codec_checks : _show_codec_warning(thread)

EncodersNext ==
    \/ CodecSelected /\ UNCHANGED << paramVars, metaVars, exportVars, callVars >>
    \/ AudioSelected /\ UNCHANGED << cropVars, paramVars, metaVars, exportVars, callVars >>
    \/ CheckEnds /\ UNCHANGED << cropVars, paramVars, metaVars, exportVars, callVars >>
    \/ WarningShown /\ UNCHANGED << cropVars, paramVars, metaRest, exportVars, callVars >>
    \/ Export /\ UNCHANGED << cropVars, metaRest, callVars >>
    \/ CreateDirResponse /\ UNCHANGED << cropVars, metaRest, callVars >>

SpecEncoders == EncodersInit /\ [][EncodersNext]_vars

\* ---- the controls of the export group: the user selects codecs, flips the
\* crop switch and edits the transform entries, from the window as
\* do_activate builds it, while the encoder checks run
CropSwitched == on_crop_toggled
FpsEdited == \E text \in FpsTexts : EditFps(text)
SizeEdited == \E size \in SizeTexts : EditSize(size[1], size[2])

ControlsNext ==
    \/ CodecSelected /\ UNCHANGED << paramVars, metaVars, exportVars, callVars >>
    \/ CropSwitched /\ UNCHANGED << paramVars, metaVars, exportVars, formVars, callVars >>
    \/ FpsEdited /\ UNCHANGED << cropVars, paramVars, metaVars, exportVars, callVars >>
    \/ SizeEdited /\ UNCHANGED << cropVars, paramVars, metaVars, exportVars, callVars >>
    \/ CheckEnds /\ UNCHANGED << cropVars, paramVars, metaVars, exportVars, callVars >>
    \/ WarningShown /\ UNCHANGED << cropVars, paramVars, metaRest, exportVars, callVars >>

SpecControls == EncodersInit /\ [][ControlsNext]_vars
\* ---- build_ffmpeg_command on its own
\* the codec arguments of a caller: the presets of constants.py alone and
\* with an audio preset, and lists around the three audio settings
CodecArgLists ==
    { CODEC_CONFIGS[i].args : i \in DOMAIN CODEC_CONFIGS }
    \cup { CODEC_CONFIGS[1].args \o AUDIO_CONFIGS[0].args,
           << >>,
           Texts(<< "-c:v", "libx264", "-an" >>),
           Texts(<< "-c" >>),
           Texts(<< "copy", "-c" >>),
           Texts(<< "-c", "libx264", "copy" >>),
           Texts(<< "-c:v", "copy", "-c", "copy" >>) }
CommandTrims == { << 0, 10000 >>, << 1500, 90500 >>, << 59999, 359999999 >> }
CommandFilters == { << >>, VideoFilter(<< 0, 0, 100, 50 >>, NoSize, NoSize, NoSize) }
CommandCalls ==
    { [ fn |-> "build_ffmpeg_command", in_flatpak |-> f, filepath |-> "a.mp4",
        start |-> tr[1], end |-> tr[2], codec_args |-> c, crop_filter |-> v,
        output_path |-> << "out", "/", "Emendo_a.mp4" >> ] :
      f \in BOOLEAN, tr \in CommandTrims, c \in CodecArgLists, v \in CommandFilters }

CommandInit ==
    /\ CropInit /\ ParamsInit /\ MetaInit /\ ExportInit /\ FormInit
    /\ args \in CommandCalls
    /\ returned = NoReturn

CommandNext ==
    \/ BuildCommand /\ UNCHANGED << cropVars, paramVars, metaVars, exportVars, formVars >>

SpecCommand == CommandInit /\ [][CommandNext]_vars

\* ---- the two time conversions on their own
\* times of ms resolution from 0 to 359999.999 s: the ends and the middle of
\* each field of HH:MM:SS.mmm
TimeFieldsMs == { 0, 1, 9, 10, 99, 100, 500, 999 }
TimeFieldsS == { 0, 9, 59 }
TimeFieldsH == { 0, 1, 99 }
RoundTripTimes ==
    { ((h * 60 + m) * 60 + sec) * 1000 + ms :
      h \in TimeFieldsH, m \in TimeFieldsS, sec \in TimeFieldsS, ms \in TimeFieldsMs }

TimeInit ==
    /\ CropInit /\ ParamsInit /\ MetaInit /\ ExportInit /\ FormInit
    /\ \E t \in RoundTripTimes : args = [ fn |-> "seconds_to_hmsms", seconds |-> t ]
    /\ returned = NoReturn

TimeNext ==
    \/ FormatTime /\ UNCHANGED << cropVars, paramVars, metaVars, exportVars, formVars >>
    \/ ParseTime /\ UNCHANGED << cropVars, paramVars, metaVars, exportVars, formVars >>

SpecTime == TimeInit /\ [][TimeNext]_vars


\* ---- hmsms_to_seconds on the texts a user types
\* the fields of a time, written with or without leading zeros, with
\* three decimals or none; and the blank texts
ParseFieldsH == { 0, 1, 99 }
ParseFieldsM == { 0, 1, 59 }
ParseFieldsS == { 0, 30, 90 }
ParseFieldsMs == { 0, 5, 500, 999 }
FieldText(n, padded) == IF padded THEN ZeroPad(n, 2) ELSE NatDigits(n)
FractionTexts(ms) == { << >>, << "." >> \o ZeroPad(ms, 3) }
TypedTime(form, h, m, sec, ms, text) ==
    [ fn |-> "hmsms_to_seconds", form |-> form, hours |-> h, minutes |-> m,
      seconds |-> sec, milliseconds |-> ms, text |-> text ]
TypedTimeSet(form) ==
    UNION { UNION { { TypedTime(form, IF form = "H:M:S" THEN h ELSE 0, m, sec,
                                IF f = << >> THEN 0 ELSE ms,
                                (IF form = "H:M:S"
                                 THEN FieldText(h, p) \o << ":" >> ELSE << >>)
                                \o (IF form = "S" THEN << >>
                                    ELSE FieldText(m, p) \o << ":" >>)
                                \o FieldText(sec, p) \o f) :
                        f \in FractionTexts(ms), p \in BOOLEAN,
                        h \in IF form = "H:M:S" THEN ParseFieldsH ELSE { 0 },
                        m \in IF form = "S" THEN { 0 } ELSE ParseFieldsM } :
                    sec \in ParseFieldsS } : ms \in ParseFieldsMs }
BlankTexts == { << >>, << " " >>, << " ", " " >> }

ParseInit ==
    /\ CropInit /\ ParamsInit /\ MetaInit /\ ExportInit /\ FormInit
    /\ \/ \E form \in { "S", "M:S", "H:M:S" } : args \in TypedTimeSet(form)
       \/ \E t \in BlankTexts : args = TypedTime("blank", 0, 0, 0, 0, t)
    /\ returned = NoReturn

ParseNext ==
    \/ ParseText /\ UNCHANGED << cropVars, paramVars, metaVars, exportVars, formVars >>

SpecParse == ParseInit /\ [][ParseNext]_vars


\* ---------------------------------------------------------------- C1
\* C1: after every on_drag_update, in any sequence of gestures, the crop
\* rectangle satisfies x >= 0, y >= 0, w >= 0.05, h >= 0.05, x + w <= 1
\* and y + h <= 1.
CropInvariant ==
    /\ crop_x >= 0
    /\ crop_y >= 0
    /\ crop_w >= CROP_MIN_SIZE
    /\ crop_h >= CROP_MIN_SIZE
    /\ crop_x + crop_w <= CropDen
    /\ crop_y + crop_h <= CropDen

\* a drag of the left edge that overshot to the right: the rectangle was
\* stopped at the minimum width against its fixed right edge
CropOvershootClamped ==
    /\ gesture_active
    /\ dragging = "left"
    /\ << crop_x, crop_y, crop_w, crop_h >> # drag_start_crop
    /\ crop_w = CROP_MIN_SIZE
    /\ crop_x = drag_start_crop[1] + drag_start_crop[3] - CROP_MIN_SIZE

\* ---------------------------------------------------------------- C2
\* C2: when the user cancels an export while its process is running, the
\* job delivers exactly one terminal result and it is the cancelled one:
\* neither a success nor an 'Export Failed' result is delivered for it.
CancelledJobOnlyCancelled ==
    cancelled_while_running =>
        /\ \A i \in 1..Len(posted) : posted[i] = "cancelled"
        /\ Len(posted) <= 1
        /\ worker_pc = "done" => posted = << "cancelled" >>

\* ---------------------------------------------------------------- C3
\* the timestamp HH:MM:SS.fff that a progress line reports, in ms, read
\* off the positions of its digits
FractionDigit(rest, k) ==
    IF 9 + k <= Len(rest) /\ IsDigit(rest[9 + k]) THEN DigitVal(rest[9 + k]) ELSE 0

ReportedMs(rest) ==
    ( (10 * DigitVal(rest[1]) + DigitVal(rest[2])) * 3600
      + (10 * DigitVal(rest[4]) + DigitVal(rest[5])) * 60
      + 10 * DigitVal(rest[7]) + DigitVal(rest[8]) ) * 1000
    + 100 * FractionDigit(rest, 1) + 10 * FractionDigit(rest, 2)
    + FractionDigit(rest, 3)

\* clamp(n / d, 0, 1) as a numerator over d
Clamp01(n, d) == IF n < 0 THEN 0 ELSE IF n > d THEN d ELSE n

\* C3: for every trim range with end > start and every reported timestamp
\* t >= 0, the progress computed by the worker is
\* clamp((t - start)/(end - start), 0, 1) when t >= start - 0.5 and
\* clamp(t/(end - start), 0, 1) otherwise; it is within [0, 1], and trim
\* [5.0, 15.0] with t = 10.0 gives 0.5.
ProgressIsClampedRatio ==
    [][ ( /\ lines_read' = lines_read + 1
          /\ ~export_cancel_requested
          /\ raw_line'.has_time )
        => LET t == ReportedMs(raw_line'.rest)
               span == end_time - start_time
           IN  /\ t_seconds' = t
               /\ prog' = IF t >= start_time - 500
                          THEN Clamp01(t - start_time, span)
                          ELSE Clamp01(t, span)
               /\ 0 <= prog' /\ prog' <= span
               /\ (start_time = 5000 /\ end_time = 15000 /\ t = 10000)
                     => 2 * prog' = span ]_vars

\* the worker processed the line time=00:00:10.000 of a job trimming
\* [5.0, 15.0] and computed the progress 0.5
HalfWayProgress ==
    /\ worker_pc = "read"
    /\ start_time = 5000
    /\ end_time = 15000
    /\ raw_line = TimeLine(10000)
    /\ t_seconds = 10000
    /\ 2 * prog = end_time - start_time

\* ---------------------------------------------------------------- C4
\* the metadata fields a probe result may change
MetaFields == << duration, video_width, video_height, video_fps >>

\* C4: for any interleaving of file opens and probe completions, a probe
\* result (success or error) changes duration, width, height or fps only if
\* its request id equals the most recently issued request id and its path
\* equals the currently loaded file; a result of a superseded request is
\* discarded and changes nothing.
StaleResultDiscarded ==
    [][ /\ MetaFields' # MetaFields =>
              /\ meta_queue # << >>
              /\ meta_queue' = Tail(meta_queue)
              /\ Head(meta_queue).request_id = metadata_request_id
              /\ Head(meta_queue).path = filepath
        /\ ( /\ meta_queue # << >>
             /\ meta_queue' = Tail(meta_queue)
             /\ \/ Head(meta_queue).request_id # metadata_request_id
                \/ Head(meta_queue).path # filepath )
           => UNCHANGED << MetaFields, start_text, end_text, loading,
                           shown_error, cropVars >> ]_vars

\* the main loop ran the successful result of a superseded request while
\* the probe of the file opened after it is still awaited, and the fields
\* are still unset
StaleResultSeen ==
    /\ meta_last # NoMessage
    /\ meta_last.result.kind = "loaded"
    /\ meta_last.result.duration # NoTime
    /\ meta_last.request_id < metadata_request_id
    /\ meta_last.path # filepath
    /\ loading
    /\ duration = NoTime
    /\ video_width = NoSize

\* ---------------------------------------------------------------- C5
\* the displayed rectangle the hit test of a drag-begin works on
CurrentRect == _displayed_video_rect(widget_w, widget_h,
                                     overlay_video_width, overlay_video_height)

\* the pointer <<mx, my>> is within the tolerance, in both axes, of corner c
\* of the crop rectangle <<cx, cy, cw, ch>> displayed in r
NearCorner(c, mx, my, r, cx, cy, cw, ch) ==
    LET hx == CropDen * r[1] + (IF c \in {"tl", "bl"} THEN cx ELSE cx + cw) * r[3]
        hy == CropDen * r[2] + (IF c \in {"tl", "tr"} THEN cy ELSE cy + ch) * r[4]
    IN  /\ Abs(CropDen * mx - hx) < CropDen * HandleThreshold
        /\ Abs(CropDen * my - hy) < CropDen * HandleThreshold

CornerOrder == << "tl", "tr", "bl", "br" >>

\* a step that is an on_drag_begin with crop mode enabled
BeginsDrag == ~gesture_active /\ gesture_active' /\ crop_enabled

\* C5 as stated: a pointer within 12 px of a corner gets that corner's
\* handle, whatever else it is close to.
CornerAlwaysWins ==
    [][ BeginsDrag =>
          \A i \in 1..4 :
              NearCorner(CornerOrder[i], drag_start_x', drag_start_y',
                         CurrentRect, crop_x, crop_y, crop_w, crop_h)
              => dragging' = CornerOrder[i] ]_vars

\* C5 amended: a pointer within 12 px of a corner gets a corner handle,
\* before any edge or the interior: the first corner, in the order tl, tr,
\* bl, br, that it is within 12 px of.
FirstCornerWins ==
    [][ BeginsDrag =>
          \A i \in 1..4 :
              ( /\ NearCorner(CornerOrder[i], drag_start_x', drag_start_y',
                              CurrentRect, crop_x, crop_y, crop_w, crop_h)
                /\ \A j \in 1..(i - 1) :
                      ~NearCorner(CornerOrder[j], drag_start_x', drag_start_y',
                                  CurrentRect, crop_x, crop_y, crop_w, crop_h) )
              => dragging' = CornerOrder[i] ]_vars

\* a drag that began on the bottom-right corner at a point that is also in
\* the strip of the right edge and inside the rectangle
CornerOverEdgeAndInterior ==
    /\ gesture_active
    /\ dragging = "br"
    /\ drag_start_crop # NoRect
    /\ LET r == CurrentRect
           x == CropDen * r[1] + drag_start_crop[1] * r[3]
           y == CropDen * r[2] + drag_start_crop[2] * r[4]
           w == drag_start_crop[3] * r[3]
           h == drag_start_crop[4] * r[4]
           px == CropDen * drag_start_x
           py == CropDen * drag_start_y
       IN  /\ Abs(px - (x + w)) < CropDen * HandleThreshold
           /\ x < px /\ px < x + w
           /\ y < py /\ py < y + h

\* ---------------------------------------------------------------- C6
\* C6: for every crop rectangle satisfying the crop invariant and every
\* positive video width and height, get_crop_params returns (x, y, w, h)
\* with w and h even and each >= 2, x >= 0, y >= 0, x + w <= videoW and
\* y + h <= videoH.
CropParamsEvenInside ==
    crop_params # NoRect =>
        /\ crop_params[3] % 2 = 0 /\ crop_params[4] % 2 = 0
        /\ crop_params[3] >= 2 /\ crop_params[4] >= 2
        /\ crop_params[1] >= 0 /\ crop_params[2] >= 0
        /\ crop_params[1] + crop_params[3] <= crop_params_video[1]
        /\ crop_params[2] + crop_params[4] <= crop_params_video[2]

\* ---------------------------------------------------------------- C7
\* a step in which on_drag_update recomputed the displayed rectangle
RectRecomputed ==
    \/ cached_rect = NoRect /\ cached_rect' # NoRect
    \/ last_rect_calc' # last_rect_calc

\* C7 as stated: the displayed-rectangle mapping is the zero rectangle
\* whenever the viewport width or height is zero or the video width or
\* height is unknown.
ZeroRectWhenNotReady ==
    [][ ( /\ RectRecomputed
          /\ \/ widget_w = 0 \/ widget_h = 0
             \/ overlay_video_width = NoSize \/ overlay_video_height = NoSize )
        => cached_rect' = <<0, 0, 0, 0>> ]_vars

\* C7 amended: the mapping is the zero rectangle whenever the viewport
\* width or height is zero; for a viewport of positive size and an unknown
\* video size it is the whole viewport (0, 0, ww, wh).
ZeroRectWhenNoViewport ==
    [][ RectRecomputed =>
          /\ (widget_w = 0 \/ widget_h = 0) => cached_rect' = <<0, 0, 0, 0>>
          /\ ( /\ widget_w > 0 /\ widget_h > 0
               /\ \/ overlay_video_width = NoSize
                  \/ overlay_video_height = NoSize )
             => cached_rect' = <<0, 0, widget_w, widget_h>> ]_vars

\* the mapping was recomputed during a drag for a viewport that had lost
\* its height, and for one that has a size while the video size is unknown
MappedWithoutViewport ==
    /\ cached_rect = <<0, 0, 0, 0>>
    /\ last_rect_calc = now
    /\ widget_w > 0
    /\ widget_h = 0
    /\ dragging # NoHandle

\* ---------------------------------------------------------------- C8
\* an export attempt: the step in which on_export runs
OnExportStep == export_outcome = "none" /\ export_outcome' # "none"

\* a text that is blank or holds a character that is neither a digit nor
\* ":" nor ".": no text of the forms HH:MM:SS.mmm, MM:SS.mmm, SS.mmm or a
\* bare number of seconds
MalformedTime(text) ==
    \/ Strip(text) = << >>
    \/ \E i \in 1..Len(Strip(text)) :
          ~IsDigit(Strip(text)[i]) /\ Strip(text)[i] \notin { ":", "." }

\* both texts are parsed and the end is not after the start
EndNotAfterStart ==
    /\ hmsms_to_seconds(start_text) # ParseError
    /\ hmsms_to_seconds(end_text) # ParseError
    /\ hmsms_to_seconds(end_text) <= hmsms_to_seconds(start_text)

\* C8: every export attempt whose start or end text is malformed (the empty
\* text included), or whose parsed end is not after its start, is rejected
\* with a reported error before anything is spawned: no worker is started
\* and the cancel flag and the process handle stay as they were.
MalformedTimesRejected ==
    [][ OnExportStep
        /\ (MalformedTime(start_text) \/ MalformedTime(end_text) \/ EndNotAfterStart)
        => /\ export_outcome' = "rejected"
           /\ shown_error' \in { "No video", "Invalid Time Format", "Invalid times" }
           /\ export_cancel_requested' = export_cancel_requested
           /\ ffmpeg_process' = ffmpeg_process
           /\ UNCHANGED exportVars ]_vars

\* ---------------------------------------------------------------- C9
\* the form selects a pixel-altering filter: the crop switch is on, an
\* output FPS is entered, or an output width and height are entered
PixelFilterSelected ==
    \/ crop_toggle
    \/ Strip(fps_entry) # << >>
    \/ Strip(width_entry) # << >> /\ Strip(height_entry) # << >>

\* the checks on_export makes before the copy-mode check find nothing
EarlierChecksPass ==
    /\ filepath # NoPath
    /\ hmsms_to_seconds(start_text) # ParseError
    /\ hmsms_to_seconds(end_text) # ParseError
    /\ hmsms_to_seconds(end_text) > hmsms_to_seconds(start_text)
    /\ _parse_output_transform_settings.error = ""

\* the step in which the answer to the "Create?" dialog runs _do_export
\* with codec 0 and a filter graph that is not null
DoExportCopyWithFilter ==
    /\ export_outcome = "asked"
    /\ export_outcome' # "asked"
    /\ create_dir_dialog.codec_choice = 0
    /\ DoExportFilter(create_dir_dialog.target_fps, create_dir_dialog.target_width,
                      create_dir_dialog.target_height) # << >>

\* rejected with the copy-mode error, nothing spawned
CopyModeRejection ==
    /\ export_outcome' = "rejected"
    /\ shown_error' = "Copy Mode Restriction"
    /\ UNCHANGED exportVars

CopyWithCropRejectedInDoExport ==
    /\ export_outcome = "rejected"
    /\ shown_error = "Copy Mode Restriction"
    /\ codec_combo = 0
    /\ crop_toggle
    /\ crop_params # NoRect

\* an attempt with codec 0 and the crop switch on was rejected by an
\* earlier check
CopyWithCropOtherError ==
    /\ export_outcome = "rejected"
    /\ shown_error \in { "No video", "Invalid Time Format", "Invalid times" }
    /\ codec_combo = 0
    /\ crop_toggle

\* ---------------------------------------------------------------- C10
\* the selected audio preset and container are not in AUDIO_CONTAINER_COMPAT
IncompatiblePair == container_combo \notin AUDIO_CONTAINER_COMPAT[audio_combo]

\* the error lists exactly the containers allowed for the audio preset
ListsAllowedContainers ==
    /\ Len(error_names') = Cardinality(AUDIO_CONTAINER_COMPAT[audio_combo])
    /\ \A i \in DOMAIN CONTAINER_NAMES :
          i \in AUDIO_CONTAINER_COMPAT[audio_combo]
          <=> \E k \in 1..Len(error_names') : error_names'[k] = CONTAINER_NAMES[i]

\* C10 as stated: every export attempt with an incompatible (audio preset,
\* container) pair is rejected before anything is launched, with an error
\* that lists exactly the containers allowed for the audio preset.
IncompatiblePairAlwaysRejected ==
    [][ OnExportStep /\ IncompatiblePair
        => /\ export_outcome' = "rejected"
           /\ UNCHANGED exportVars
           /\ shown_error' = "Audio/Container Incompatible"
           /\ ListsAllowedContainers ]_vars

\* C10: every export attempt with an incompatible (audio preset, container)
\* pair and a codec other than stream copy is rejected before anything is
\* launched; when the checks made before it pass, the error is the
\* audio/container error and lists exactly the containers allowed for the
\* audio preset.  (Stream copy without a filter ignores the audio preset
\* and is not checked.)
IncompatiblePairRejected ==
    [][ OnExportStep /\ IncompatiblePair /\ codec_combo # 0
        => /\ export_outcome' = "rejected"
           /\ UNCHANGED exportVars
           /\ EarlierChecksPass
              => /\ shown_error' = "Audio/Container Incompatible"
                 /\ ListsAllowedContainers ]_vars

\* an Opus preset with the MP4 container was rejected listing MKV only
OpusInMp4Rejected ==
    /\ export_outcome = "rejected"
    /\ shown_error = "Audio/Container Incompatible"
    /\ audio_combo = 5
    /\ container_combo = 0
    /\ codec_combo = 1
    /\ error_names = << "MKV" >>

\* a stream copy with an Opus preset and the MP4 container was started
OpusInMp4Copied ==
    /\ export_outcome = "started"
    /\ codec_combo = 0
    /\ audio_combo = 5
    /\ container_combo = 0

\* ---------------------------------------------------------------- C11
\* the step in which the worker posts a terminal result
PostsTerminal == Len(posted') = Len(posted) + 1

\* the terminal result posted in this step
PostedResult == ui_queue'[Len(ui_queue')]

\* success exactly for exit code 0, otherwise a failure with that code
ResultMatchesExitCode ==
    /\ proc_state = "exited"
    /\ PostedResult.kind = "success" <=> proc_ret = 0
    /\ PostedResult.kind # "success"
       => /\ PostedResult.kind = "failed"
          /\ PostedResult.ret = proc_ret
          /\ proc_ret # 0

\* C11 as stated: a spawned job on which cancellation is never requested
\* delivers exactly one terminal result, success exactly when the exit code
\* of the process is 0 and otherwise a failure carrying that exit code.
OneResultByExitCode ==
    [][ PostsTerminal /\ proc_state # "none" /\ ~export_cancel_requested
        => posted = << >> /\ ResultMatchesExitCode ]_vars

\* C11: a spawned job on which cancellation is never requested delivers
\* exactly one terminal result; when the output of the process was read to
\* its end it is success exactly when the exit code is 0 and otherwise a
\* failure carrying that exit code, and when reading the output raised it
\* is a failure without an exit code.
OneResultByExitCodeOrReadError ==
    [][ PostsTerminal /\ proc_state # "none" /\ ~export_cancel_requested
        => /\ posted = << >>
           /\ IF worker_pc = "wait" THEN ResultMatchesExitCode
              ELSE /\ worker_pc = "read"
                   /\ PostedResult.kind = "failed"
                   /\ PostedResult.ret = NoCode ]_vars

\* a job that was never cancelled has posted the failure of exit code 1
FailureWithExitCode ==
    /\ ~export_cancel_requested
    /\ posted = << "failed" >>
    /\ proc_ret = 1
    /\ ui_queue # << >>
    /\ ui_queue[Len(ui_queue)].kind = "failed"
    /\ ui_queue[Len(ui_queue)].ret = 1

\* ---------------------------------------------------------------- C12
\* the job is over and the main loop has run every update it posted
JobQuiescent == worker_pc = "done" /\ ui_queue = << >>

\* the process has exited with code 0 and no cancellation was requested
ExitedZeroNotCancelled ==
    /\ proc_state = "exited"
    /\ proc_ret = 0
    /\ ~export_cancel_requested

\* the progress bar shows 1.0
BarIsFull == progress_view.fraction = DurationSpan(start_time, end_time)

\* C12 as stated: when the process of a job exits with code 0 and the job
\* is not cancelled, the last progress value delivered to the UI is 1.0.
FinalProgressIsOne ==
    JobQuiescent /\ ExitedZeroNotCancelled => BarIsFull

\* C12: when proc.wait() has returned exit code 0 (line 2175; the handle
\* is cleared at 2176) and the job is not cancelled, the last progress
\* value delivered to the UI is 1.0: the forced update comes after every
\* throttled progress update, whatever the last line carried and whatever
\* the throttle dropped.
FinalProgressIsOneAfterWait ==
    JobQuiescent /\ ExitedZeroNotCancelled /\ ffmpeg_process = NoProcess
    => BarIsFull

\* a job succeeded whose last line was below 1.0 and was dropped by the
\* throttle, and the bar shows 1.0
FullBarAfterDroppedUpdate ==
    /\ JobQuiescent
    /\ ExitedZeroNotCancelled
    /\ posted = << "success" >>
    /\ prog # NoProg
    /\ prog < DurationSpan(start_time, end_time)
    /\ prog # last_progress
    /\ BarIsFull

\* ---------------------------------------------------------------- C13
\* the step records a speed sample: the window changes and is not reset
RecordsSample == progress_samples' # progress_samples /\ progress_samples' # << >>

\* every sample of the window is a positive progress over a positive time
SamplesPositive(samples) ==
    \A i \in 1..Len(samples) : samples[i][1] > 0 /\ samples[i][2] > 0

\* C13: a speed sample is recorded only when the new normalized progress is
\* strictly greater than the previous one and the wall clock has advanced;
\* a regressed or duplicate timestamp adds none, so every sample in the
\* window is strictly positive.
SampleOnlyWhenRisen ==
    [][ /\ RecordsSample => /\ prog' > last_progress
                            /\ wall' > last_progress_time
                            /\ Len(progress_samples') <= MaxSamples
        /\ SamplesPositive(progress_samples') ]_vars

\* the update of a regressed timestamp was delivered and added no sample
RegressedAddsNoSample ==
    /\ lines_read = 2
    /\ t_seconds # NoTime
    /\ last_update_time = wall
    /\ Len(progress_samples) = 1
    /\ last_progress < progress_samples[1][1]

\* ---------------------------------------------------------------- C14
\* the step hands a progress update to the main loop
PostsProgress ==
    /\ Len(ui_queue') = Len(ui_queue) + 1
    /\ ui_queue'[Len(ui_queue')].kind = "progress"

\* (1 - p) / avgSpeed in whole seconds, for the progress and the average
\* speed the worker holds after the step
EtaNow ==
    ((DurationSpan(start_time, end_time) - prog') * avg_speed'[2]) \div avg_speed'[1]

\* C14: in every progress callback an ETA other than 'Calculating...' is
\* shown only with p > 0.01 and avgSpeed > 0 at that callback, and it is
\* (1 - p) / avgSpeed of that callback's progress, or '>1 hour' for an hour
\* or more; it is never a division by zero and never uses an earlier
\* callback's progress.
EtaFromThisCallback ==
    [][ PostsProgress =>
          \/ ui_queue'[Len(ui_queue')].eta = << "Calculating..." >>
          \/ /\ 100 * prog' > DurationSpan(start_time, end_time)
             /\ avg_speed'[1] > 0
             /\ avg_speed'[2] > 0
             /\ ui_queue'[Len(ui_queue')].eta =
                  IF EtaNow < 3600 THEN _format_elapsed_time(EtaNow)
                  ELSE << ">1 hour" >> ]_vars

\* a numeric ETA is on display, after an earlier callback with another
\* progress
NumericEtaShown ==
    /\ lines_read = 2
    /\ Len(progress_samples) = 2
    /\ progress_view.eta \notin { << "Calculating..." >>, << ">1 hour" >>, << >> }
    /\ progress_view.fraction = prog
    /\ prog < DurationSpan(start_time, end_time)

\* ---------------------------------------------------------------- C15
\* C15: whenever a failure or cancelled terminal result has been posted for
\* an export job, on every path (non-zero exit, cancellation, spawn error,
\* exception while reading the process output), the job's process is no
\* longer running and the shared handle no longer refers to it.
ReportedJobHasNoProcess ==
    posted # << >> /\ posted[Len(posted)] \in { "failed", "cancelled" }
        => proc_state # "running" /\ ffmpeg_process = NoProcess

\* ---------------------------------------------------------------- C16
\* build_ffmpeg_command has returned
CommandBuilt == args.fn = "build_ffmpeg_command" /\ returned # NoReturn

\* the first position of a word in an argv, 0 when it is absent
FirstIndex(argv, word) ==
    IF \E i \in 1..Len(argv) : argv[i] = << word >>
    THEN CHOOSE i \in 1..Len(argv) :
            argv[i] = << word >> /\ \A j \in 1..(i - 1) : argv[j] # << word >>
    ELSE 0

\* how often a word occurs in an argv
Occurrences(argv, word) == Cardinality({ i \in 1..Len(argv) : argv[i] = << word >> })

\* a time in seconds with exactly three decimals
ThreeDecimals(text, ms) ==
    /\ Len(text) >= 5
    /\ text[Len(text) - 3] = "."
    /\ \A i \in 1..Len(text) : i # Len(text) - 3 => IsDigit(text[i])
    /\ DigitsValue(SubSeq(text, 1, Len(text) - 4), 0) = ms \div 1000
    /\ DigitsValue(SubSeq(text, Len(text) - 2, Len(text)), 0) = ms % 1000

\* C16: build_ffmpeg_command returns [tool prefix..., '-y', '-ss', start
\* with 3 decimals, '-to', end with 3 decimals, '-i', source, ('-vf',
\* filter graph) exactly once if and only if the filter graph is present,
\* the caller's codec arguments unchanged and in order, an optional audio
\* fallback pair, the output path last]; '-ss' and '-to' precede '-i'.
CommandShape ==
    CommandBuilt =>
      LET argv == returned
          y == FirstIndex(argv, "-y")
          has_vf == args.crop_filter # << >>
          c == y + 7 + (IF has_vf THEN 2 ELSE 0)
          n == Len(args.codec_args)
          rest == SubSeq(argv, c + n, Len(argv))
      IN  /\ y >= 2
          /\ argv[y - 1] = << "ffmpeg" >>
          /\ Len(argv) >= c + n
          /\ argv[y + 1] = << "-ss" >>
          /\ ThreeDecimals(argv[y + 2], args.start)
          /\ argv[y + 3] = << "-to" >>
          /\ ThreeDecimals(argv[y + 4], args.end)
          /\ argv[y + 5] = << "-i" >>
          /\ argv[y + 6] = << args.filepath >>
          /\ has_vf => argv[y + 7] = << "-vf" >> /\ argv[y + 8] = args.crop_filter
          /\ Occurrences(argv, "-vf") = IF has_vf THEN 1 ELSE 0
          /\ SubSeq(argv, c, c + n - 1) = args.codec_args
          /\ rest \in { << args.output_path >>,
                        << << "-c:a" >>, << "copy" >>, args.output_path >> }
          /\ FirstIndex(argv, "-ss") < FirstIndex(argv, "-i")
          /\ FirstIndex(argv, "-to") < FirstIndex(argv, "-i")
          /\ Occurrences(argv, "-ss") = 1
          /\ Occurrences(argv, "-to") = 1
          /\ Occurrences(argv, "-i") = 1

\* a command with the host prefix, a filter graph and codec arguments
FilteredCommandBuilt ==
    /\ CommandBuilt
    /\ args.in_flatpak
    /\ args.crop_filter # << >>
    /\ Len(args.codec_args) > 2
    /\ returned[Len(returned)] = args.output_path
    /\ Occurrences(returned, "-vf") = 1

\* ---------------------------------------------------------------- C17
\* the command ends with the fallback pair added to the codec arguments
FallbackAppended ==
    LET argv == returned
        expected == (IF args.in_flatpak THEN 3 ELSE 1) + 7
                    + (IF args.crop_filter # << >> THEN 2 ELSE 0)
                    + Len(args.codec_args) + 3
    IN  /\ Len(argv) = expected
        /\ argv[expected - 2] = << "-c:a" >>
        /\ argv[expected - 1] = << "copy" >>

\* the codec arguments name an audio codec, no audio, or a blanket copy
NamesAudio(codec_args) ==
    \/ Occurrences(codec_args, "-c:a") > 0
    \/ Occurrences(codec_args, "-an") > 0
    \/ \E i \in 1..(Len(codec_args) - 1) :
          codec_args[i] = << "-c" >> /\ codec_args[i + 1] = << "copy" >>

\* C17: build_ffmpeg_command appends ['-c:a', 'copy'] if and only if the
\* codec arguments contain neither '-c:a', nor '-an', nor an adjacent pair
\* '-c' 'copy'; so a codec preset without an audio directive gives a command
\* that copies the source audio.
AudioFallbackIffNoAudioSetting ==
    CommandBuilt =>
      /\ FallbackAppended <=> ~NamesAudio(args.codec_args)
      /\ \A i \in DOMAIN CODEC_CONFIGS :
            args.codec_args = CODEC_CONFIGS[i].args /\ i # 0 => FallbackAppended

\* a video preset alone was given and the command copies the audio
PresetCopiesAudio ==
    /\ CommandBuilt
    /\ args.codec_args = CODEC_CONFIGS[1].args
    /\ FallbackAppended

\* ---------------------------------------------------------------- C20
\* C20: for every time s of ms resolution in [0, 359999.999] seconds,
\* hmsms_to_seconds(seconds_to_hmsms(s)) equals s to within 0.001 s (here
\* in ms: the two differ by at most 1, and the text is parsed at all).
TimeRoundTrip ==
    args.fn = "seconds_to_hmsms" /\ Len(returned) = 2
    /\ args.seconds >= 0 /\ args.seconds <= 359999999
        => /\ returned[2] # ParseError
           /\ returned[2] - args.seconds \in { -1, 0, 1 }

\* the last time of the range went through both conversions
LastTimeRoundTripped ==
    /\ args.fn = "seconds_to_hmsms"
    /\ args.seconds = 359999999
    /\ Len(returned) = 2
    /\ returned[1] = << "9", "9", ":", "5", "9", ":", "5", "9", ".", "9", "9", "9" >>
    /\ returned[2] = 359999999

\* ---------------------------------------------------------------- C18
\* the runs of the capability probe that fail or time out
FailedRuns == { "error_exit", "timeout", "not_found" }

\* the step ends a check thread's run of the probe and stores its answer
StoresAnswer(thread) ==
    thread \in codec_checks /\ thread.pc = "run" /\ thread \notin codec_checks'

\* what the cache holds for the encoder of a check thread after the step
StoredAnswer(thread) ==
    IF thread.audio THEN _audio_codec_availability'[thread.index]
    ELSE _codec_availability'[thread.index]

\* the rows an export attempt works with: those of the combos, or those
\* bound to the "Create?" dialog it continues from
AttemptCodec ==
    IF create_dir_dialog # NoDialog THEN create_dir_dialog.codec_choice ELSE codec_combo
AttemptAudio ==
    IF create_dir_dialog # NoDialog THEN create_dir_dialog.audio_choice ELSE audio_combo

\* the step is an export attempt that ends with an availability error
BlockedOnAvailability ==
    /\ export_outcome # "rejected"
    /\ export_outcome' = "rejected"
    /\ shown_error' \in { "Codec Not Available", "Audio Codec Not Available" }

\* the step is an export attempt that hands a command to the worker
ExportGoesAhead ==
    /\ export_outcome \notin { "started", "crashed" }
    /\ export_outcome' \in { "started", "crashed" }

\* after the step an encoder of the attempt is recorded as unavailable; a
\* stream copy (row 0, no filter: a copy with a filter is refused before
\* the encoders are looked at) has no audio encoder
SelectedEncoderUnavailable ==
    \/ _codec_availability'[AttemptCodec] = "False"
    \/ AttemptCodec # 0 /\ _audio_codec_availability'[AttemptAudio] = "False"

\* C18: encoder availability is tri-state: a capability probe that fails,
\* times out or was never run leaves the encoder 'unknown' and never blocks
\* an export; an export is blocked on availability grounds if and only if
\* the selected video or audio encoder is recorded (or synchronously
\* probed) as definitively unavailable.
FailedProbeLeavesUnknown ==
    [][ /\ \A thread \in codec_checks :
              StoresAnswer(thread) /\ thread.run \in FailedRuns
                  => StoredAnswer(thread) = "None"
        /\ BlockedOnAvailability => SelectedEncoderUnavailable
        /\ ExportGoesAhead => ~SelectedEncoderUnavailable ]_vars

\* ---------------------------------------------------------------- C19
\* the step runs _on_metadata_error for a probe failure that is not stale
HandlesProbeFailure ==
    /\ meta_queue # << >>
    /\ meta_queue' = Tail(meta_queue)
    /\ Head(meta_queue).result.kind = "error"
    /\ ~IsStale(Head(meta_queue).path, Head(meta_queue).request_id)

\* C19: after any metadata probe failure that is not stale is handled,
\* VideoGeometry is entirely unset: width, height and fps (and the
\* duration) hold no value from the failed load or from a previously
\* loaded file, and the crop editor's video size is not left at the
\* previous file's dimensions.
ProbeFailureUnsetsGeometry ==
    [][ HandlesProbeFailure =>
          /\ duration' = NoTime
          /\ video_width' = NoSize
          /\ video_height' = NoSize
          /\ video_fps' = DEFAULT_FPS
          /\ overlay_video_width' = NoSize
          /\ overlay_video_height' = NoSize ]_vars

\* ---------------------------------------------------------------- C21
\* hmsms_to_seconds has returned or raised for the text drawn
TextParsed == args.fn = "hmsms_to_seconds" /\ returned # NoReturn

\* C21: hmsms_to_seconds accepts 'S[.mmm]' as S + ms/1000, 'M:S[.mmm]' as
\* 60*M + S + ms/1000 and 'H:M:S[.mmm]' as 3600*H + 60*M + S + ms/1000 (so
\* '90' -> 90.0, '1:30' -> 90.0, '00:01:30.500' -> 90.5), and raises the
\* invalid-time-format error for the empty or whitespace-only string.
ParserAcceptsThreeForms ==
    TextParsed =>
      /\ args.form = "blank" => returned[1] = ParseError
      /\ args.form # "blank" =>
            returned[1] = 3600000 * args.hours + 60000 * args.minutes
                          + 1000 * args.seconds + args.milliseconds
      /\ args.text = << "9", "0" >> => returned[1] = 90000
      /\ args.text = << "1", ":", "3", "0" >> => returned[1] = 90000
      /\ args.text = << "0", "0", ":", "0", "1", ":", "3", "0", ".", "5", "0", "0" >>
            => returned[1] = 90500

\* '1:30' was parsed as 90 s
MinutesSecondsParsed ==
    /\ TextParsed
    /\ args.text = << "1", ":", "3", "0" >>
    /\ returned[1] = 90000

\* ---------------------------------------------------------------- C22
\* _start_ffmpeg_thread runs: a new worker is about to spawn its process
JobStarts == worker_pc # "spawn" /\ worker_pc' = "spawn"

\* C22: at most one export job (worker thread and external process) is
\* active: a job is started only when no worker thread is alive and no
\* external process of an earlier job is running, so the cancel flag and
\* the process handle, which the start resets, belong to a single job.
OneExportAtATime ==
    [][JobStarts => worker_pc \in { "idle", "done" } /\ proc_state # "running"]_vars

\* ---------------------------------------------------------------- C23
\* C23: under fair scheduling, once cancellation is requested the external
\* process is eventually terminated and the job eventually reaches its
\* terminal state, in every interleaving of the request with the worker.
CancelEndsJob ==
    export_cancel_requested ~> (worker_pc = "done" /\ proc_state # "running")

\* ---------------------------------------------------------------- C24
\* the loop reads a line
LineRead == worker_pc = "read" /\ lines_read' = lines_read + 1

\* C24: the worker checks the cancel flag at every iteration of the reading
\* loop before it processes the line: a line read with the flag set gives no
\* progress update and changes none of the loop's locals, and the worker
\* kills the process and leaves the loop.
CancelCheckedBeforeLine ==
    [][LineRead /\ export_cancel_requested =>
          /\ ui_queue' = ui_queue
          /\ UNCHANGED workerLocals
          /\ worker_pc' = "wait"
          /\ proc_state' = "exited"
          /\ proc_state = "running" => proc_ret' = KilledCode]_vars

\* the first line, with a time in it, was read with the flag set: the locals
\* are those of the start, nothing was queued and the process was killed
LineDroppedAfterCancel ==
    /\ export_cancel_requested
    /\ worker_pc = "wait"
    /\ lines_read = 1
    /\ raw_line = TimeLine(10000)
    /\ prog = NoProg
    /\ ui_queue = << >>
    /\ proc_ret = KilledCode

\* ---------------------------------------------------------------- C25
\* the sampler thread of the job is in its loop
SamplerAlive == monitor_pc \in { "test", "poll" }

\* the sampler thread takes a step
SamplerMoves == SamplerAlive /\ monitor_pc' \in { "test", "poll", "done", "crashed" }
                /\ monitor_pc' # monitor_pc

ProgressUpdatesThrottled ==
    [][/\ PostsProgress =>
            /\ wall' - last_update_time > FFMPEG_PROGRESS_THROTTLE
            /\ last_update_time' = wall'
       /\ LineRead /\ ~PostsProgress => last_update_time' = last_update_time
       /\ LineRead /\ wall' - last_update_time <= FFMPEG_PROGRESS_THROTTLE =>
            /\ ui_queue' = ui_queue
            /\ UNCHANGED << last_update_time, last_progress, last_progress_time,
                            progress_samples, avg_speed >>]_vars

\* the second line, with a time in it, came exactly 0.1 s after the update
\* of the first and was dropped: one update is all there is
LineInsideWindowDropped ==
    /\ lines_read = 2
    /\ raw_line = TimeLine(10000)
    /\ t_seconds # NoTime
    /\ ~export_cancel_requested
    /\ wall - last_update_time = FFMPEG_PROGRESS_THROTTLE
    /\ Len(ui_queue) = 1
    /\ ui_queue[1].kind = "progress"

\* ---------------------------------------------------------------- C27
\* the step is an on_drag_update of a gesture on the enabled overlay
DragUpdateStep ==
    /\ gesture_active /\ gesture_active'
    /\ crop_enabled /\ crop_enabled'
    /\ dragging # NoHandle
    /\ cached_rect' # NoRect
    /\ UNCHANGED << now, overlay_video_width, overlay_video_height >>

\* the step is a set_video_size with a new size
VideoSizeStep ==
    << overlay_video_width', overlay_video_height' >>
        # << overlay_video_width, overlay_video_height >>

\* _queue_draw_throttled issues a redraw
RedrawIssued == last_crop_draw' # last_crop_draw

\* the rectangle on_drag_update computes for the delta d over the displayed
\* rectangle the step used
UpdatedCrop(d) ==
    FinalClamp(DragRule(dragging, << crop_x, crop_y, crop_w, crop_h >>,
                        drag_start_crop,
                        (d[1] * CropDen) \div cached_rect'[3],
                        (d[2] * CropDen) \div cached_rect'[4]))

\* C27: two consecutive redraws issued by _queue_draw_throttled are more
\* than 1/60 s apart; a request inside that window is dropped and no redraw
\* is issued later for it; every drag update sets the crop rectangle,
\* whether or not its redraw was issued.
RedrawsThrottled ==
    [][/\ RedrawIssued =>
            /\ now - last_crop_draw > CROP_REDRAW_THROTTLE
            /\ last_crop_draw' = now
            /\ DragUpdateStep \/ VideoSizeStep
       /\ now - last_crop_draw <= CROP_REDRAW_THROTTLE => ~RedrawIssued
       /\ DragUpdateStep =>
            \E d \in RedrawDeltas :
                << crop_x', crop_y', crop_w', crop_h' >> = UpdatedCrop(d)]_vars

\* a drag update exactly 1/60 s after the last redraw has moved the
\* rectangle, and its redraw was dropped
CropMovedWithoutRedraw ==
    /\ gesture_active
    /\ dragging = "move"
    /\ now - last_crop_draw = CROP_REDRAW_THROTTLE
    /\ last_crop_draw > 0
    /\ cached_rect # NoRect
    /\ last_rect_calc = now
    /\ << crop_x, crop_y >> # << drag_start_crop[1], drag_start_crop[2] >>

\* ---------------------------------------------------------------- C28
\* the loop records a speed sample
SampleRecorded == LineRead /\ progress_samples' # progress_samples

\* C28: the window of speed samples never holds more than 10 samples: a
\* sample recorded on a full window evicts the oldest one, and avgSpeed is
\* the arithmetic mean of the samples in the window (per second, as the
\* fraction << n, d >>).
SampleWindowRolls ==
    /\ [](/\ Len(progress_samples) <= 10
          /\ progress_samples # << >> =>
                avg_speed[1] * Len(progress_samples) * SumRate(progress_samples)[2]
                  = avg_speed[2] * TicksPerSecond * SumRate(progress_samples)[1])
    /\ [][SampleRecorded =>
            /\ progress_samples'[Len(progress_samples')]
                 = << last_progress' - last_progress, wall' - last_progress_time >>
            /\ Len(progress_samples) < 10 =>
                 SubSeq(progress_samples', 1, Len(progress_samples)) = progress_samples
            /\ Len(progress_samples) = 10 =>
                 SubSeq(progress_samples', 1, 9) = Tail(progress_samples)]_vars

\* the twelfth sample was recorded: the window holds the last ten, and the
\* two rates seen are both in it
TwelfthSampleRecorded ==
    /\ lines_read = 12
    /\ Len(progress_samples) = 10
    /\ last_progress = 8400
    /\ progress_samples[1] = << 700, 3 >>
    /\ progress_samples[10] = << 700, 4 >>

\* ---------------------------------------------------------------- C29
\* the pointer delta d relative to the displayed rectangle the step used
RelativeDelta(d) == << (d[1] * CropDen) \div cached_rect'[3],
                       (d[2] * CropDen) \div cached_rect'[4] >>

\* C29: during a drag with the 'move' handle the width and height of the
\* crop rectangle are those of the drag start and the rectangle is within
\* [0, 1]; an update sets x and y to the start origin plus the delta, each
\* clamped to [0, 1 - size].
MoveKeepsSize ==
    /\ [](gesture_active /\ dragging = "move" =>
            /\ crop_w = drag_start_crop[3]
            /\ crop_h = drag_start_crop[4]
            /\ 0 <= crop_x /\ crop_x + crop_w <= CropDen
            /\ 0 <= crop_y /\ crop_y + crop_h <= CropDen)
    /\ [][DragUpdateStep /\ dragging = "move" =>
            \E d \in DragDeltas :
                /\ crop_x' = Max(0, Min(CropDen - drag_start_crop[3],
                                        drag_start_crop[1] + RelativeDelta(d)[1]))
                /\ crop_y' = Max(0, Min(CropDen - drag_start_crop[4],
                                        drag_start_crop[2] + RelativeDelta(d)[2]))]_vars

\* a move that overshot the right and bottom borders: the rectangle lies in
\* the far corner with the size it had
MovedIntoCorner ==
    /\ gesture_active
    /\ dragging = "move"
    /\ crop_x > drag_start_crop[1]
    /\ crop_x + crop_w = CropDen
    /\ crop_y + crop_h = CropDen
    /\ crop_w = drag_start_crop[3]
    /\ crop_h = drag_start_crop[4]

\* ---------------------------------------------------------------- C30
\* the edges of the crop rectangle and of the rectangle at drag start
FixedLeft == crop_x = drag_start_crop[1]
FixedTop == crop_y = drag_start_crop[2]
FixedRight == crop_x + crop_w = drag_start_crop[1] + drag_start_crop[3]
FixedBottom == crop_y + crop_h = drag_start_crop[2] + drag_start_crop[4]
FixedWidth == crop_w = drag_start_crop[3]
FixedHeight == crop_h = drag_start_crop[4]

\* C30: during a drag with a corner or edge handle the edges that do not
\* belong to the handle stay where they were at drag start: the opposite
\* corner for a corner handle; the opposite edge and the origin and size of
\* the other axis for an edge handle.
ResizeKeepsOtherEdges ==
    gesture_active =>
        /\ dragging = "tl" => FixedRight /\ FixedBottom
        /\ dragging = "tr" => FixedLeft /\ FixedBottom
        /\ dragging = "bl" => FixedRight /\ FixedTop
        /\ dragging = "br" => FixedLeft /\ FixedTop
        /\ dragging = "left" => FixedRight /\ FixedTop /\ FixedHeight
        /\ dragging = "right" => FixedLeft /\ FixedTop /\ FixedHeight
        /\ dragging = "top" => FixedBottom /\ FixedLeft /\ FixedWidth
        /\ dragging = "bottom" => FixedTop /\ FixedLeft /\ FixedWidth

\* the top-left corner was dragged inwards: the rectangle is smaller and its
\* bottom-right corner is where it was
CornerDraggedInwards ==
    /\ gesture_active
    /\ dragging = "tl"
    /\ crop_x > drag_start_crop[1]
    /\ crop_y > drag_start_crop[2]
    /\ crop_w < drag_start_crop[3]
    /\ FixedRight /\ FixedBottom

\* ---------------------------------------------------------------- C31
\* the step changes the crop rectangle
CropChanges == << crop_x', crop_y', crop_w', crop_h' >> # << crop_x, crop_y, crop_w, crop_h >>

\* C31: a drag update leaves the crop rectangle unchanged when crop mode is
\* disabled, when no drag is active, when the gesture began on no handle, or
\* when the displayed video rectangle has zero width or height: the
\* rectangle changes only in a step taken with crop mode on, inside a
\* gesture that holds a handle, over a displayed rectangle of positive size.
UpdateChangesCropOnlyInDrag ==
    [][CropChanges =>
          /\ crop_enabled
          /\ gesture_active
          /\ dragging # NoHandle
          /\ cached_rect' # NoRect
          /\ cached_rect'[3] > 0 /\ cached_rect'[4] > 0]_vars

\* an update of a drag that holds a handle found the displayed rectangle
\* empty and left the crop rectangle as it was at drag start
UpdateOnEmptyRect ==
    /\ gesture_active
    /\ crop_enabled
    /\ dragging # NoHandle
    /\ cached_rect # NoRect
    /\ cached_rect[3] = 0
    /\ << crop_x, crop_y, crop_w, crop_h >> = drag_start_crop

\* ---------------------------------------------------------------- C32
\* the probe of the file opened last has not been handed to
\* _on_metadata_loaded / _on_metadata_error yet
OwnProbePending ==
    \/ \E p \in probes : p.request_id = metadata_request_id
    \/ \E i \in 1..Len(meta_queue) : meta_queue[i].request_id = metadata_request_id

\* C32: the stored geometry (width, height, fps) and duration are unset or
\* the probe result of the file that is loaded: from the opening of a file
\* until its own probe completes they are unset, so an export in between
\* cannot take the dimensions or the duration of the file loaded before.
GeometryOfLoadedFile ==
    OwnProbePending =>
        /\ duration = NoTime
        /\ video_width = NoSize
        /\ video_height = NoSize
        /\ video_fps = DEFAULT_FPS

\* ---------------------------------------------------------------- C33
\* the rectangle an update with pixel delta d gives, computed from the
\* handle and the rectangle captured at drag start alone
GestureResult(d) ==
    FinalClamp(DragRule(dragging, drag_start_crop, drag_start_crop,
                        RelativeDelta(d)[1], RelativeDelta(d)[2]))

\* the step is an update over a displayed rectangle of positive size
UpdateApplied == DragUpdateStep /\ cached_rect'[3] > 0 /\ cached_rect'[4] > 0

\* C33: within a gesture the rectangle after an update is a function of the
\* handle and the rectangle captured at drag start and of the cumulative
\* delta of this update, whatever updates came before: drag-begin captures
\* the rectangle, every update with delta d gives the rectangle computed
\* from the captured one, and an update with delta (0, 0) gives back the
\* captured rectangle for every handle.
UpdateFromDragStartOnly ==
    /\ [][~gesture_active /\ gesture_active' /\ crop_enabled =>
            drag_start_crop' = << crop_x, crop_y, crop_w, crop_h >>]_vars
    /\ [][\A d \in DragDeltas :
            UpdateApplied /\ on_drag_update(d[1], d[2]) =>
                << crop_x', crop_y', crop_w', crop_h' >> = GestureResult(d)]_vars
    /\ [][UpdateApplied /\ on_drag_update(0, 0) =>
            << crop_x', crop_y', crop_w', crop_h' >> = drag_start_crop]_vars

\* a later gesture of the run has resized the rectangle from a corner: its
\* rectangle differs from the one captured at its start
ResizedFromDragStart ==
    /\ gesture_active
    /\ dragging \in { "tl", "tr", "bl", "br" }
    /\ << crop_x, crop_y, crop_w, crop_h >> # drag_start_crop
    /\ drag_start_crop # << CROP_DEFAULT_X, CROP_DEFAULT_Y, CROP_DEFAULT_W, CROP_DEFAULT_H >>

\* ---------------------------------------------------------------- C34
\* the timestamp of a progress update, in ms, read off its detail text
DeliveredMs(m) == ReportedMs(Tail(m.detail))

\* the step hands over a progress update of a job whose previous update is
\* the last message waiting for the main loop, and the reported time has
\* not moved backwards between the two
NextProgressOfJob ==
    /\ PostsProgress
    /\ last_update_time > 0
    /\ ui_queue # << >>
    /\ ui_queue[Len(ui_queue)].kind = "progress"
    /\ DeliveredMs(ui_queue[Len(ui_queue)]) <= DeliveredMs(ui_queue'[Len(ui_queue')])

\* the first of the two timestamps lies before the grace period ahead of
\* the trim start and the second one in it or after it
CrossesSeekPoint ==
    /\ DeliveredMs(ui_queue[Len(ui_queue)]) < start_time - 500
    /\ DeliveredMs(ui_queue'[Len(ui_queue')]) >= start_time - 500

\* C34: for every trim range and every non-decreasing sequence of reported
\* timestamps the progress values delivered to the UI are non-decreasing:
\* the bar never moves backwards while the reported time moves forwards.
ProgressNeverMovesBack ==
    [][NextProgressOfJob =>
          ui_queue'[Len(ui_queue')].fraction >= ui_queue[Len(ui_queue)].fraction]_vars

\* what the worker does keep: the progress does not fall between two
\* timestamps that lie on the same side of start - 0.5 s
ProgressFallsOnlyAtSeekPoint ==
    [][NextProgressOfJob /\ ~CrossesSeekPoint =>
          ui_queue'[Len(ui_queue')].fraction >= ui_queue[Len(ui_queue)].fraction]_vars

\* ---------------------------------------------------------------- C35
\* the progress increases behind the recorded samples, summed
RECURSIVE SumIncreases(_)
SumIncreases(samples) ==
    IF samples = << >> THEN 0
    ELSE samples[1][1] + SumIncreases(Tail(samples))

\* C35: the baseline of the speed samples (last_progress) never decreases
\* while the lines of a job are read, so that after a regressed timestamp the
\* next sample is measured from the highest progress reached, and the
\* progress increases behind the recorded samples of a job sum to at most 1.
BaselineNeverDecreases ==
    /\ [][lines_read' = lines_read + 1 => last_progress' >= last_progress]_vars
    /\ [](SumIncreases(progress_samples) <= DurationSpan(start_time, end_time))

\* ---------------------------------------------------------------- C36
\* the overlay is on screen in crop mode and no gesture is going on
OverlayAtRest == is_visible /\ crop_enabled /\ ~gesture_active

\* the last frame shows the crop rectangle as it is
FrameIsCurrent == painted_crop = << crop_x, crop_y, crop_w, crop_h >>

\* C36: while the overlay is visible, after the last drag update of a
\* gesture a redraw showing the final crop rectangle is eventually issued:
\* once the pointer events have stopped, the frame on screen does not stay
\* older than the crop rectangle.
FinalRectangleShown ==
    (OverlayAtRest /\ ~FrameIsCurrent) ~> (FrameIsCurrent \/ ~OverlayAtRest)

\* ---------------------------------------------------------------- C37
\* C37: the result of get_crop_params depends only on the crop rectangle and
\* the video dimensions: for the same rectangle and video size every widget
\* size, a zero or not yet allocated one included, gives the same
\* (x, y, w, h) as the widget the overlay has at the call.
CropParamsIgnoreWidget ==
    [][\A vs \in ParamVideoSizes :
          CropParamsCall(vs[1], vs[2]) =>
              \A ws \in WidgetSizes \cup GestureWidgetSizes :
                  crop_params' = get_crop_params(<< crop_x, crop_y, crop_w, crop_h >>,
                                                 vs[1], vs[2], ws[1], ws[2])]_vars

\* what the code does keep: every allocated widget gives the same result
CropParamsIgnoreAllocatedWidget ==
    [][\A vs \in ParamVideoSizes :
          CropParamsCall(vs[1], vs[2]) /\ widget_w > 0 /\ widget_h > 0 =>
              \A ws \in { s \in WidgetSizes \cup GestureWidgetSizes : s[1] > 0 /\ s[2] > 0 } :
                  crop_params' = get_crop_params(<< crop_x, crop_y, crop_w, crop_h >>,
                                                 vs[1], vs[2], ws[1], ws[2])]_vars

\* ---------------------------------------------------------------- C38
\* C38: in every state of the window, if the selected codec is row 0 (stream
\* copy) then crop mode is off and the FPS, width and height entries are
\* empty: selecting copy switches crop off and clears the entries, and no
\* step sets them while copy stays selected.
CopyHasNoTransform ==
    /\ [](codec_combo = 0 =>
            /\ ~crop_toggle
            /\ ~crop_enabled
            /\ fps_entry = << >>
            /\ width_entry = << >>
            /\ height_entry = << >>)
    /\ [][codec_combo = 0 /\ codec_combo' = 0 =>
            UNCHANGED << crop_enabled, fps_entry, width_entry, height_entry >>]_vars

\* copy is selected again after another codec, under which the crop switch
\* was used: crop mode is off and the entries are empty
CopySelectedAgain ==
    /\ codec_combo = 0
    /\ \E i \in DOMAIN _codec_availability : _codec_availability[i] # "absent"
    /\ draw_pending
    /\ ~crop_enabled
    /\ fps_entry = << >>
    /\ width_entry = << >>
    /\ height_entry = << >>

====
